---------------------------- MODULE Spec2Model ----------------------------
(***************************************************************************)
(* A model of the tool-calling orchestration core of the Noa assistant     *)
(* (src/assistant/gpt_assistant.py): the history pruner, the tool argument *)
(* sanitizer, the tool dispatcher with the photo tool, and the two-call    *)
(* turn of GPTAssistant.send_to_assistant with its asyncio.gather fan-out. *)
(*                                                                         *)
(* Python values are records [type, val]: type is the name of the Python   *)
(* type and val a sequence of text fragments, so that a str is the         *)
(* sequence of its fragments, "" is the empty sequence and None differs    *)
(* from every str.                                                         *)
(***************************************************************************)
EXTENDS Integers, Sequences, FiniteSets, TLC

----------------------------------------------------------------------------
(* Bounds of the model *)

\* longest history of arbitrary roles given to _prune_history
MaxHistory == 6
\* longest user/assistant-only dialogue given to _prune_history
MaxDialogue == 10
\* most members of a JSON object written by the model
MaxPayloadKeys == 2
\* most tool calls in one completion response
MaxToolCalls == 2
\* most entries of a learned-context mapping
MaxLearned == 2

----------------------------------------------------------------------------
(* Python values *)

None == [type |-> "NoneType", val |-> << >>]
Str(frags) == [type |-> "str", val |-> frags]
Bool(b) == [type |-> "bool", val |-> IF b THEN <<"True">> ELSE <<"False">>]
Bytes(frags) == [type |-> "bytes", val |-> frags]
PyInt(repr) == [type |-> "int", val |-> <<repr>>]
Handle(t, name) == [type |-> t, val |-> <<name>>]

\* Python truth value of v, as `if v` and `v if v else d` test it
Truthy(v) ==
    CASE v.type = "NoneType" -> FALSE
      [] v.type = "bool" -> v.val = <<"True">>
      [] v.type \in {"str", "bytes"} -> Len(v.val) > 0
      [] OTHER -> TRUE

Reverse(s) == [k \in 1..Len(s) |-> s[Len(s) + 1 - k]]

\* del s[i], with the 0-based index of the code
DelAt(s, i) == SubSeq(s, 1, i) \o SubSeq(s, i + 2, Len(s))

\* set of the sequences over S of length 0..n
SeqsUpTo(S, n) == UNION {[1..k -> S] : k \in 0..n}

----------------------------------------------------------------------------
(* Messages *)

ROLE_SYSTEM == "system"
ROLE_USER == "user"
ROLE_ASSISTANT == "assistant"
ROLE_TOOL == "tool"

Message(role, content) == [role |-> role, content |-> content]

----------------------------------------------------------------------------
(* GPTAssistant._prune_history *)

assistant_messages_remaining == 3
user_messages_remaining == 5

\* a faulty loop body: every message that is not an assistant message is
\* counted against the user budget, so system and tool messages can be dropped
PruneIterSharedBudget(st) ==
    LET h == st.message_history
        role == h[st.i + 1].role
    IN  IF role = ROLE_ASSISTANT
        THEN IF st.assistant_messages_remaining = 0
             THEN [st EXCEPT !.message_history = DelAt(h, st.i)]
             ELSE [st EXCEPT !.assistant_messages_remaining = @ - 1, !.i = @ + 1]
        ELSE IF st.user_messages_remaining = 0
             THEN [st EXCEPT !.message_history = DelAt(h, st.i)]
             ELSE [st EXCEPT !.user_messages_remaining = @ - 1, !.i = @ + 1]

\* a faulty loop body: the index advances after a deletion too, so the
\* message that slid into the deleted slot is never examined
PruneIterSkipAfterDelete(st) ==
    LET h == st.message_history
        role == h[st.i + 1].role
    IN  IF role = ROLE_ASSISTANT
        THEN IF st.assistant_messages_remaining = 0
             THEN [st EXCEPT !.message_history = DelAt(h, st.i), !.i = @ + 1]
             ELSE [st EXCEPT !.assistant_messages_remaining = @ - 1, !.i = @ + 1]
        ELSE IF role = ROLE_USER
        THEN IF st.user_messages_remaining = 0
             THEN [st EXCEPT !.message_history = DelAt(h, st.i), !.i = @ + 1]
             ELSE [st EXCEPT !.user_messages_remaining = @ - 1, !.i = @ + 1]
        ELSE [st EXCEPT !.i = @ + 1]

\* one iteration of the body of `while i < len(message_history)`
PruneIter(st) ==
    LET h == st.message_history
        role == h[st.i + 1].role
    IN  IF role = ROLE_ASSISTANT
        THEN IF st.assistant_messages_remaining = 0
             THEN [st EXCEPT !.message_history = DelAt(h, st.i)]
             ELSE [st EXCEPT !.assistant_messages_remaining = @ - 1, !.i = @ + 1]
        ELSE IF role = ROLE_USER
        THEN IF st.user_messages_remaining = 0
             THEN [st EXCEPT !.message_history = DelAt(h, st.i)]
             ELSE [st EXCEPT !.user_messages_remaining = @ - 1, !.i = @ + 1]
        ELSE [st EXCEPT !.i = @ + 1]

RECURSIVE PruneLoop(_)
PruneLoop(st) ==
    IF st.i < Len(st.message_history) THEN PruneLoop(PruneIter(st)) ELSE st

\* a faulty pruner: the list is not reversed back after the scan
_prune_history_reversed(message_history) ==
    PruneLoop([message_history |-> Reverse(message_history),
               i |-> 0,
               assistant_messages_remaining |-> assistant_messages_remaining,
               user_messages_remaining |-> user_messages_remaining]).message_history

_prune_history(message_history) ==
    Reverse(PruneLoop([message_history |-> Reverse(message_history),
                       i |-> 0,
                       assistant_messages_remaining |-> assistant_messages_remaining,
                       user_messages_remaining |-> user_messages_remaining]).message_history)

----------------------------------------------------------------------------
(* Tools: the catalog advertised to the model *)

DUMMY_SEARCH_TOOL_NAME == "general_knowledge_search"
SEARCH_TOOL_NAME == "search"
PHOTO_TOOL_NAME == "analyze_photo"
QUERY_PARAM_NAME == "query"
PHOTO_TOOL_WEB_SEARCH_PARAM_NAME == "google_reverse_image_search"
PHOTO_TOOL_TRANSLATION_PARAM_NAME == "translate"

\* TOOLS, each descriptor reduced to its name and the declared type of each
\* of its parameters (["function"]["parameters"]["properties"])
TOOLS ==
    << [name |-> DUMMY_SEARCH_TOOL_NAME,
        properties |-> [p \in {QUERY_PARAM_NAME} |-> "string"]],
       [name |-> SEARCH_TOOL_NAME,
        properties |-> [p \in {QUERY_PARAM_NAME} |-> "string"]],
       [name |-> PHOTO_TOOL_NAME,
        properties |-> [p \in {QUERY_PARAM_NAME,
                               PHOTO_TOOL_WEB_SEARCH_PARAM_NAME,
                               PHOTO_TOOL_TRANSLATION_PARAM_NAME} |->
                            IF p = QUERY_PARAM_NAME THEN "string" ELSE "boolean"]] >>

\* the keys of handle_tool's tool_functions table
tool_functions == {SEARCH_TOOL_NAME, PHOTO_TOOL_NAME, DUMMY_SEARCH_TOOL_NAME}

\* d[k] = v on a dict d (a function from keys to values)
Put(d, k, v) == [x \in (DOMAIN d) \cup {k} |-> IF x = k THEN v ELSE d[x]]

\* the dict d without the keys in ks
Without(d, ks) == [x \in (DOMAIN d) \ ks |-> d[x]]

EmptyDict == [x \in {} |-> None]

----------------------------------------------------------------------------
(* prepare_tool_arguments *)

\* A raw argument payload (tool_call.function.arguments) is the record
\* [json, items]: json is "invalid" for text that is no JSON document, else
\* the Python type json.loads gives the document ("dict", "list", "int",
\* "str", "NoneType"); items holds the members of an object.

\* json.loads: the exception raised, or the value
json_loads(arguments) ==
    IF arguments.json = "invalid"
    THEN [raised |-> "JSONDecodeError", type |-> "NoneType", items |-> EmptyDict]
    ELSE [raised |-> "", type |-> arguments.json, items |-> arguments.items]

\* `args = {}` then `try: args = json.loads(...) except: pass`
ParsedArgs(arguments) ==
    LET r == json_loads(arguments)
    IN  IF r.raised # "" THEN [type |-> "dict", items |-> EmptyDict]
                         ELSE [type |-> r.type, items |-> r.items]

\* the function description selected by name (line 256)
function_description(name) ==
    (CHOOSE k \in 1..Len(TOOLS) : TOOLS[k].name = name
                                  /\ \A j \in 1..(k - 1) : TOOLS[j].name # name)

\* a faulty loop: the `del` branch for boolean parameters is missing
DroppedNoBooleanCheck(function_parameters, args, param_name) ==
    \/ param_name \notin DOMAIN function_parameters
    \/ /\ function_parameters[param_name] = "string"
       /\ args[param_name].type # "str"

\* a faulty loop: the `del` branch for string parameters is missing
DroppedNoStringCheck(function_parameters, args, param_name) ==
    \/ param_name \notin DOMAIN function_parameters
    \/ /\ function_parameters[param_name] = "boolean"
       /\ args[param_name].type # "bool"

\* whether the loop deletes param_name from args (the three `del` branches)
Dropped(function_parameters, args, param_name) ==
    \/ param_name \notin DOMAIN function_parameters
    \/ /\ function_parameters[param_name] = "string"
       /\ args[param_name].type # "str"
    \/ /\ function_parameters[param_name] = "boolean"
       /\ args[param_name].type # "bool"

\* whether the loop raises ValueError on param_name
Unsupported(function_parameters, args, param_name) ==
    /\ ~Dropped(function_parameters, args, param_name)
    /\ function_parameters[param_name] \notin {"string", "boolean"}

\* a faulty default: the caller's location is passed on as it came
location_as_given(location) == location

\* `location if location else "unknown"` (line 281)
location_or_unknown(location) ==
    IF Truthy(location) THEN location ELSE Str(<<"unknown">>)

\* a faulty sanitizer: a key of the payload that bears the name of an
\* argument of the handler is kept, and the caller's value is set only where
\* the payload left the name free
prepare_tool_arguments_payload_wins(tool_call, user_message, image_bytes, location, local_time, web_search, vision, learned_context, token_usage_by_model, capabilities_used) ==
    LET function_parameters == TOOLS[function_description(tool_call.name)].properties
        parsed == ParsedArgs(tool_call.arguments)
        args0 == parsed.items
        declared == {k \in DOMAIN args0 : k \in DOMAIN function_parameters}
        kept == Without(args0, {k \in declared : Dropped(function_parameters, args0, k)})
        Default(d, k, v) == IF k \in DOMAIN d THEN d ELSE Put(d, k, v)
        withQuery == Default(Default(kept, "location", location_or_unknown(location)),
                             QUERY_PARAM_NAME, user_message)
        photo == Default(Default(Default(Default(Default(Default(Default(withQuery,
                     "image_bytes", image_bytes),
                     "vision", vision),
                     "web_search", web_search),
                     "local_time", local_time),
                     "learned_context", learned_context),
                     "token_usage_by_model", token_usage_by_model),
                     "capabilities_used", capabilities_used)
    IN  IF parsed.type # "dict"
        THEN [raised |-> "AttributeError", args |-> EmptyDict]
        ELSE [raised |-> "",
              args |-> IF tool_call.name = PHOTO_TOOL_NAME THEN photo ELSE withQuery]

\* The result is [raised, args]: raised names the exception that leaves the
\* function ("" when it returns), args is the returned mapping.
prepare_tool_arguments(tool_call, user_message, image_bytes, location, local_time, web_search, vision, learned_context, token_usage_by_model, capabilities_used) ==
    LET function_parameters == TOOLS[function_description(tool_call.name)].properties
        parsed == ParsedArgs(tool_call.arguments)
        args0 == parsed.items
        kept == Without(args0, {k \in DOMAIN args0 : Dropped(function_parameters, args0, k)})
        withLocation == Put(kept, "location", location_or_unknown(location))
        withQuery == IF QUERY_PARAM_NAME \in DOMAIN withLocation
                     THEN withLocation
                     ELSE Put(withLocation, QUERY_PARAM_NAME, user_message)
        photo == Put(Put(Put(Put(Put(Put(Put(withQuery,
                     "image_bytes", image_bytes),
                     "vision", vision),
                     "web_search", web_search),
                     "local_time", local_time),
                     "learned_context", learned_context),
                     "token_usage_by_model", token_usage_by_model),
                     "capabilities_used", capabilities_used)
    IN  IF parsed.type # "dict"
        THEN \* args.keys() on a value that is no dict (line 265)
             [raised |-> "AttributeError", args |-> EmptyDict]
        ELSE IF \E k \in DOMAIN args0 : Unsupported(function_parameters, args0, k)
        THEN [raised |-> "ValueError", args |-> EmptyDict]
        ELSE [raised |-> "",
              args |-> IF tool_call.name = PHOTO_TOOL_NAME THEN photo ELSE withQuery]

----------------------------------------------------------------------------
(* GPTAssistant._create_context_system_message *)

CONTEXT_SYSTEM_MESSAGE_PREFIX == "## Additional context about the user:"

\* A dict with str keys is the Python value [type |-> "dict", val |-> <<k1,
\* v1, k2, v2, ...>>]: its items in iteration order, each key a string and
\* each value a Python value (Str(<<"Bob">>), None).
PyDict(flat) == [type |-> "dict", val |-> flat]

\* the items of a dict value, as a sequence of <<key, value>> pairs
DictItems(d) == [n \in 1..(Len(d.val) \div 2) |-> <<d.val[2 * n - 1], d.val[2 * n]>>]

RECURSIVE DictUpdate(_, _)
\* context.update(items): a key already present keeps its place and takes
\* the new value, a new key goes last
DictUpdate(context, items) ==
    IF items = << >> THEN context
    ELSE LET k == items[1][1]
             v == items[1][2]
             upd == IF \E n \in 1..Len(context) : context[n][1] = k
                    THEN [n \in 1..Len(context) |->
                             IF context[n][1] = k THEN <<k, v>> ELSE context[n]]
                    ELSE Append(context, <<k, v>>)
         IN  DictUpdate(upd, Tail(items))

\* the items the comprehension of line 622 keeps: `if value is not None`
items_not_none(context) == SelectSeq(context, LAMBDA item : item[2].type # "NoneType")

RECURSIVE JoinLines(_)
\* "\n".join of the tags of the items kept
JoinLines(kept) ==
    IF kept = << >> THEN << >>
    ELSE <<"<", kept[1][1], ">">> \o kept[1][2].val \o <<"</", kept[1][1], ">">>
         \o (IF Len(kept) > 1 THEN <<"\n">> ELSE << >>)
         \o JoinLines(Tail(kept))

\* "\n".join([f"<{key}>{value}</{key}>" for key, value in context.items()
\*            if value is not None])
JoinTags(context) == JoinLines(items_not_none(context))

_create_context_system_message(local_time, location, learned_context) ==
    LET current_time ==
            IF local_time.type # "NoneType" /\ Len(local_time.val) > 0
            THEN local_time.val
            ELSE <<"If asked, tell user you don't know current date or time because clock is broken">>
        loc ==
            IF location.type # "NoneType" /\ Len(location.val) > 0
            THEN location.val
            ELSE <<"You do not know user's location and if asked, tell them so">>
        fixed == << <<"current_time", Str(current_time)>>, <<"location", Str(loc)>> >>
        context == IF learned_context.type # "NoneType"
                   THEN DictUpdate(fixed, DictItems(learned_context))
                   ELSE fixed
    IN  Str(<<CONTEXT_SYSTEM_MESSAGE_PREFIX>> \o JoinTags(context))

----------------------------------------------------------------------------
(* handle_photo_tool and handle_general_knowledge_tool *)

VISION_PHOTO_DESCRIPTION_SYSTEM_MESSAGE == "VISION_PHOTO_DESCRIPTION_SYSTEM_MESSAGE"
VISION_GENERATE_REVERSE_IMAGE_SEARCH_QUERY_FROM_PHOTO_SYSTEM_MESSAGE ==
    "VISION_GENERATE_REVERSE_IMAGE_SEARCH_QUERY_FROM_PHOTO_SYSTEM_MESSAGE"

NO_PHOTO_ERROR ==
    Str(<<"Error: no photo supplied. Tell user: I think you're referring to something you can see. Can you provide a photo?">>)

HALLUCINATED_TOOL_ERROR ==
    Str(<<"Error: you hallucinated a tool that doesn't exist. Tell user you had trouble interpreting the request and ask them to rephrase it.">>)

CAP_ASSISTANT_KNOWLEDGE == "assistant_knowledge"
CAP_WEB_SEARCH == "web_search"
CAP_VISION == "vision"
CAP_REVERSE_IMAGE_SEARCH == "reverse_image_search"

\* the value of keyword argument k, or the parameter's default
Arg(function_args, k, default) ==
    IF k \in DOMAIN function_args THEN function_args[k] ELSE default

RECURSIVE LStrip(_, _)
LStrip(t, ch) == IF t # << >> /\ Head(t) = ch THEN LStrip(Tail(t), ch) ELSE t

\* str.strip(ch) on a text whose fragments are single characters or words
Strip(t, ch) == Reverse(LStrip(Reverse(LStrip(t, ch)), ch))

\* a faulty test: only an absent image counts as no image
no_image_bytes_absent_only(image_bytes) == image_bytes.type = "NoneType"

\* `image_bytes is None or len(image_bytes) == 0` (line 333)
no_image_bytes(image_bytes) ==
    image_bytes.type = "NoneType" \/ Len(image_bytes.val) = 0

\* a faulty test: reverse image search whenever it is asked for
reverse_image_search_asked(google_reverse_image_search, translate) ==
    Truthy(google_reverse_image_search)

\* `google_reverse_image_search and not translate` (line 341)
use_reverse_image_search(google_reverse_image_search, translate) ==
    Truthy(google_reverse_image_search) /\ ~Truthy(translate)

\* handle_photo_tool up to its first await: which branch the call takes, the
\* capability it appends first, and the vision request it issues.
\*   branch "no_photo": returns NO_PHOTO_ERROR at once
\*   branch "reverse_image_search": lines 341-350
\*   branch "vision": lines 352-362
photo_tool_begin(function_args) ==
    LET image_bytes == Arg(function_args, "image_bytes", None)
        google_reverse_image_search ==
            Arg(function_args, PHOTO_TOOL_WEB_SEARCH_PARAM_NAME, Bool(FALSE))
        translate == Arg(function_args, PHOTO_TOOL_TRANSLATION_PARAM_NAME, Bool(FALSE))
        extra_context ==
            <<"\n\n">> \o _create_context_system_message(
                              Arg(function_args, "local_time", None),
                              Arg(function_args, "location", None),
                              Arg(function_args, "learned_context", None)).val
        request(prompt) == [system_message |-> Str(<<prompt>> \o extra_context),
                            query |-> function_args[QUERY_PARAM_NAME],
                            image_bytes |-> image_bytes]
    IN  IF no_image_bytes(image_bytes)
        THEN [branch |-> "no_photo", capability |-> << >>, vision_request |-> << >>]
        ELSE IF use_reverse_image_search(google_reverse_image_search, translate)
        THEN [branch |-> "reverse_image_search",
              capability |-> <<CAP_REVERSE_IMAGE_SEARCH>>,
              vision_request |->
                  <<request(VISION_GENERATE_REVERSE_IMAGE_SEARCH_QUERY_FROM_PHOTO_SYSTEM_MESSAGE)>>]
        ELSE [branch |-> "vision",
              capability |-> <<CAP_VISION>>,
              vision_request |-> <<request(VISION_PHOTO_DESCRIPTION_SYSTEM_MESSAGE)>>]

\* a faulty search request: the vision text is used as the query as it came
photo_tool_search_request_unstripped(function_args, vision_response) ==
    [query |-> vision_response,
     use_photo |-> Bool(TRUE),
     image_bytes |-> Arg(function_args, "image_bytes", None),
     location |-> Arg(function_args, "location", None)]

\* the web search of line 350, issued when the vision backend has answered
photo_tool_search_request(function_args, vision_response) ==
    [query |-> Str(Strip(vision_response.val, "\"")),
     use_photo |-> Bool(TRUE),
     image_bytes |-> Arg(function_args, "image_bytes", None),
     location |-> Arg(function_args, "location", None)]

\* handle_general_knowledge_tool
handle_general_knowledge_tool(function_args) == Str(<< >>)

\* a keyword argument the caller leaves to the callee's default
NotPassed == [type |-> "<default>", val |-> << >>]

\* web_search.search_web(**function_args) as handle_tool calls it
tool_search_request(function_args) ==
    [query |-> function_args[QUERY_PARAM_NAME],
     use_photo |-> NotPassed,
     image_bytes |-> NotPassed,
     location |-> Arg(function_args, "location", NotPassed)]

RECURSIVE JoinComma(_)
\* ", ".join(list)
JoinComma(l) ==
    IF l = << >> THEN << >>
    ELSE <<l[1]>> \o (IF Len(l) > 1 THEN <<", ">> ELSE << >>) \o JoinComma(Tail(l))

\* create_debug_tool_info_object, without the measured time. capabilities is
\* the content, at the time of the call, of the list that the argument
\* capabilities_used refers to; search_result is None or the metadata.
create_debug_tool_info_object(function_name, function_args, capabilities, search_result) ==
    LET redacted == [k \in DOMAIN function_args |->
                        IF function_args[k].type = "bytes" THEN Str(<<"<bytes>">>)
                        ELSE IF function_args[k].type = "list" THEN Str(JoinComma(capabilities))
                        ELSE function_args[k]]
        tool_args == Without(redacted, {"vision", "web_search", "token_usage_by_model", "prompt"})
    IN  IF Truthy(search_result)
        THEN [tool |-> function_name, tool_args |-> tool_args, search_result |-> search_result]
        ELSE [tool |-> function_name, tool_args |-> tool_args]

----------------------------------------------------------------------------
(* State *)

VARIABLES
    \* one turn of GPTAssistant.send_to_assistant
    pc,                 \* where the turn is: "idle", "awaiting_first",
                        \* "tools_executing", "awaiting_second", "done", "aborted"
    call,               \* the arguments of send_to_assistant
    message_history,    \* the turn's own copy of the history
    requests,           \* the completion requests issued so far, in order
    completions,        \* the completion responses received so far, in order;
                        \* completions[1] is first_response_message
    tasks,              \* the handle_tool coroutine of each requested call
    completion_order,   \* indices of the tasks, in the order they finished
    capabilities_used,  \* returned_response.capabilities_used
    tools_used,         \* the debug records
    response,           \* returned_response.response
    token_usage_by_model, \* returned_response.token_usage_by_model
    caller_list,        \* the content of the list object the caller passed
                        \* as message_history (empty when it passed None)
    \* a call of prepare_tool_arguments on its own
    san_pc,             \* "idle" | "called" | "finished"
    san_call,           \* its arguments
    san_out,            \* [raised, args]
    \* a call of _prune_history on its own
    prune_pc,           \* "idle" | "called" | "returned" | "returned_again"
    prune_in,           \* the list given to _prune_history
    prune_out,          \* the list it returns
    prune_again,        \* what _prune_history returns when given prune_out
    \* a call of handle_photo_tool on its own
    photo_pc,           \* "idle" | "called" | "await_vision" |
                        \* "await_vision_then_search" | "await_search" |
                        \* "returned" | "raised"
    photo_call,         \* [function_args, capabilities_used]: the keyword
                        \* arguments, and the content of the list that
                        \* capabilities_used refers to when the call is made
    photo_capabilities, \* the content of that list now
    photo_vision_calls, \* the requests made to vision.query_image, in order
    photo_vision_response, \* what vision.query_image returned
    photo_search_calls, \* the requests made to web_search.search_web, in order
    photo_out,          \* the value handle_photo_tool returns
    \* a call of _create_context_system_message on its own
    ctx_pc,             \* "idle" | "called" | "returned"
    ctx_call,           \* its arguments
    ctx_out             \* the str it returns

turnVars == <<pc, call, message_history, requests, completions, tasks,
              completion_order, capabilities_used, tools_used, response,
              token_usage_by_model, caller_list>>

sanVars == <<san_pc, san_call, san_out>>

pruneVars == <<prune_pc, prune_in, prune_out, prune_again>>

photoVars == <<photo_pc, photo_call, photo_capabilities, photo_vision_calls,
               photo_vision_response, photo_search_calls, photo_out>>

ctxVars == <<ctx_pc, ctx_call, ctx_out>>

vars == <<turnVars, sanVars, pruneVars, photoVars, ctxVars>>

----------------------------------------------------------------------------
(* Ambient values of a call *)

UserMessage == Str(<<"what is this?">>)

WebSearchHandle == Handle("WebSearch", "web_search")
VisionHandle == Handle("Vision", "vision")
TokenUsageHandle == Handle("dict", "token_usage_by_model")
CapabilitiesHandle == Handle("list", "capabilities_used")

Images == {None, Bytes(<< >>), Bytes(<<"jpeg">>)}
Locations == {None, Str(<< >>), Str(<<"Paris">>)}
LocalTimes == {None, Str(<<"Tuesday, 10:00">>)}

TurnIdle ==
    /\ pc = "idle"
    /\ call = << >>
    /\ message_history = << >>
    /\ requests = << >>
    /\ completions = << >>
    /\ tasks = << >>
    /\ completion_order = << >>
    /\ capabilities_used = << >>
    /\ tools_used = << >>
    /\ response = None
    /\ token_usage_by_model = EmptyDict
    /\ caller_list = << >>

SanIdle ==
    /\ san_pc = "idle"
    /\ san_call = << >>
    /\ san_out = << >>

PruneIdle ==
    /\ prune_pc = "idle"
    /\ prune_in = << >>
    /\ prune_out = << >>
    /\ prune_again = << >>

PhotoIdle ==
    /\ photo_pc = "idle"
    /\ photo_call = << >>
    /\ photo_capabilities = << >>
    /\ photo_vision_calls = << >>
    /\ photo_vision_response = None
    /\ photo_search_calls = << >>
    /\ photo_out = None

CtxIdle ==
    /\ ctx_pc = "idle"
    /\ ctx_call = << >>
    /\ ctx_out = None

----------------------------------------------------------------------------
(* The pruner on its own: every bounded history, pruned, and the result *)
(* pruned again                                                           *)

PruneRoles == {ROLE_SYSTEM, ROLE_USER, ROLE_ASSISTANT, ROLE_TOOL}

\* the i-th message of an input carries the text "m<i>"
MsgText(i) == Str(<<"m", ToString(i)>>)

HistoryOf(roles) == [i \in 1..Len(roles) |-> Message(roles[i], MsgText(i))]

PruneInputs ==
    {HistoryOf(r) : r \in SeqsUpTo(PruneRoles, MaxHistory)}
    \cup {HistoryOf(r) : r \in SeqsUpTo({ROLE_USER, ROLE_ASSISTANT}, MaxDialogue)}

InitPrune ==
    /\ prune_pc = "called"
    /\ prune_in \in PruneInputs
    /\ prune_out = << >>
    /\ prune_again = << >>
    /\ TurnIdle
    /\ SanIdle
    /\ PhotoIdle
    /\ CtxIdle

PruneReturns ==
    /\ prune_pc = "called"
    /\ prune_out' = _prune_history(prune_in)
    /\ prune_pc' = "returned"
    /\ UNCHANGED <<prune_in, prune_again, turnVars, sanVars, photoVars, ctxVars>>

\* _prune_history called on the list a previous call returned
PruneAgainReturns ==
    /\ prune_pc = "returned"
    /\ prune_again' = _prune_history(prune_out)
    /\ prune_pc' = "returned_again"
    /\ UNCHANGED <<prune_in, prune_out, turnVars, sanVars, photoVars, ctxVars>>

NextPrune == PruneReturns \/ PruneAgainReturns

SpecPrune == InitPrune /\ [][NextPrune]_vars

----------------------------------------------------------------------------
(* The sanitizer on its own: every known tool, every bounded payload *)

\* values a model-written JSON object can give a key
JsonValues == {Str(<<"weather">>), Str(<<"true">>), Bool(TRUE), Bool(FALSE), PyInt("42")}

\* keys a model-written JSON object can hold: the declared parameters, an
\* undeclared one, and the name of a caller-injected argument
JsonKeys == {QUERY_PARAM_NAME, PHOTO_TOOL_WEB_SEARCH_PARAM_NAME,
             PHOTO_TOOL_TRANSLATION_PARAM_NAME, "foo", "location"}

JsonObjects ==
    UNION {[ks -> JsonValues] : ks \in {k \in SUBSET JsonKeys : Cardinality(k) <= MaxPayloadKeys}}

\* the names of the arguments that prepare_tool_arguments sets itself
InjectedNames ==
    {"location", "image_bytes", "vision", "web_search", "local_time", "learned_context",
     "token_usage_by_model", "capabilities_used"}

\* objects by which the model tries to set every such argument itself
OverridingObjects == {[k \in InjectedNames |-> v] : v \in {Str(<<"true">>), Bool(TRUE)}}

Payloads ==
    {[json |-> "invalid", items |-> EmptyDict]}
    \cup {[json |-> t, items |-> EmptyDict] : t \in {"list", "int", "str", "NoneType"}}
    \cup {[json |-> "dict", items |-> o] : o \in JsonObjects \cup OverridingObjects}

ToolCall(id, name, arguments) == [id |-> id, name |-> name, arguments |-> arguments]

InitSanitize ==
    /\ san_pc = "called"
    /\ san_call \in [tool_call : {ToolCall("call_1", n, a) : n \in tool_functions, a \in Payloads},
                     user_message : {UserMessage},
                     image_bytes : Images,
                     location : Locations,
                     local_time : LocalTimes]
    /\ san_out = << >>
    /\ TurnIdle
    /\ PruneIdle
    /\ PhotoIdle
    /\ CtxIdle

PrepareToolArguments ==
    /\ san_pc = "called"
    /\ san_out' = prepare_tool_arguments(san_call.tool_call, san_call.user_message,
                                         san_call.image_bytes, san_call.location,
                                         san_call.local_time, WebSearchHandle, VisionHandle,
                                         PyDict(<< >>), TokenUsageHandle, CapabilitiesHandle)
    /\ san_pc' = "finished"
    /\ UNCHANGED <<san_call, turnVars, pruneVars, photoVars, ctxVars>>

NextSanitize == PrepareToolArguments

SpecSanitize == InitSanitize /\ [][NextSanitize]_vars

----------------------------------------------------------------------------
(* GPTAssistant.send_to_assistant: one turn *)

SYSTEM_MESSAGE == "SYSTEM_MESSAGE"

\* a faulty start: the turn works on the caller's list itself
alias_history(history_absent, caller_history) ==
    [list |-> IF history_absent \/ Len(caller_history) = 0 THEN << >> ELSE caller_history,
     shared |-> ~history_absent /\ Len(caller_history) > 0]

\* `message_history.copy() if message_history else None` and `if not
\* message_history: message_history = []` (lines 428, 433-434): the list the
\* turn works on, and whether it is the caller's list object
copy_history(history_absent, caller_history) ==
    [list |-> IF history_absent \/ Len(caller_history) = 0 THEN << >> ELSE caller_history,
     shared |-> FALSE]

\* a faulty preparation: the default system message is used for an empty
\* history only, never inserted before a history that lacks one
prepare_history_no_insert(history_absent, caller_history, prompt, local_time, location_address) ==
    LET user_message == Message(ROLE_USER, prompt)
        system_message == Message(ROLE_SYSTEM, Str(<<SYSTEM_MESSAGE>>))
        copied == IF history_absent \/ Len(caller_history) = 0 THEN << >> ELSE caller_history
        withSystem == IF Len(copied) = 0 THEN <<system_message>> ELSE copied
        pruned == _prune_history(Append(withSystem, user_message))
        extra_context_message ==
            Message(ROLE_SYSTEM,
                    _create_context_system_message(local_time, location_address, PyDict(<< >>)))
    IN  Append(pruned, extra_context_message)

\* lines 427-455: the history submitted to the first completion request.
\* history_absent tells a caller that passes None from one that passes a list.
prepare_history(history_absent, caller_history, prompt, local_time, location_address) ==
    LET user_message == Message(ROLE_USER, prompt)
        system_message == Message(ROLE_SYSTEM, Str(<<SYSTEM_MESSAGE>>))
        copied == copy_history(history_absent, caller_history).list
        withSystem == IF Len(copied) = 0 THEN <<system_message>>
                      ELSE IF copied[1].role # ROLE_SYSTEM THEN <<system_message>> \o copied
                      ELSE copied
        pruned == _prune_history(Append(withSystem, user_message))
        extra_context_message ==
            Message(ROLE_SYSTEM,
                    _create_context_system_message(local_time, location_address, PyDict(<< >>)))
    IN  Append(pruned, extra_context_message)

\* a faulty default: assistant knowledge is recorded in every turn
always_assistant_knowledge(capabilities) == Append(capabilities, CAP_ASSISTANT_KNOWLEDGE)

\* lines 532-534: the default capability
finalize_capabilities(capabilities) ==
    IF Len(capabilities) = 0 THEN <<CAP_ASSISTANT_KNOWLEDGE>> ELSE capabilities

\* a faulty fan-in: the outputs in the order the handlers finished
gather_as_completed(ts, order) == [i \in 1..Len(ts) |-> ts[order[i]].output]

\* asyncio.gather(*tool_handlers): the outputs in the order of the awaitables
gather(ts, order) == [i \in 1..Len(ts) |-> ts[i].output]

\* a faulty fan-in: the turn goes on as soon as one handler has returned
gather_first_completed(ts) == \E i \in 1..Len(ts) : ts[i].state = "done"

\* a faulty fan-in: a handler's exception is taken as its result
gather_return_exceptions(ts) == \A i \in 1..Len(ts) : ts[i].state \in {"done", "failed"}

\* `await asyncio.gather(...)` returns: every handler has returned
gather_ready(ts) == \A i \in 1..Len(ts) : ts[i].state = "done"

\* a faulty test: a single tool call is not taken as a tool request
several_tool_calls(tool_calls) == Len(tool_calls) > 1

\* `if first_response_message.tool_calls:` (line 481)
tool_calls_requested(tool_calls) == Len(tool_calls) > 0

\* lines 506-514: the tool-role messages
tool_messages(tool_calls, tool_outputs) ==
    [i \in 1..Len(tool_outputs) |->
        [tool_call_id |-> tool_calls[i].id,
         role |-> ROLE_TOOL,
         name |-> tool_calls[i].name,
         content |-> tool_outputs[i]]]

\* handle_tool lines 221-226: the capability recorded for a single-purpose tool
handle_tool_capability(function_name) ==
    IF function_name = SEARCH_TOOL_NAME THEN <<CAP_WEB_SEARCH>>
    ELSE IF function_name = DUMMY_SEARCH_TOOL_NAME THEN <<CAP_ASSISTANT_KNOWLEDGE>>
    ELSE << >>

\* a faulty write: the list is replaced by the tags written, so what other
\* invocations appended before is lost
overwrite_capabilities(capabilities, tags) ==
    IF tags = << >> THEN capabilities ELSE tags

\* capabilities_used.append(tag) for each tag written (lines 222-225, 342, 353)
append_capabilities(capabilities, tags) == capabilities \o tags

\* handle_tool lines 238-239: a WebSearchResult gives its summary, a str itself
tool_output(function_response) ==
    IF function_response.type = "WebSearchResult"
    THEN Str(function_response.val)
    ELSE function_response

\* a WebSearchResult with its summary and its provider metadata
WebSearchResult(summary, metadata) ==
    [type |-> "WebSearchResult", val |-> summary, search_provider_metadata |-> metadata]

\* a faulty lookup: tool_functions[function_name] raises on an unknown name
handle_unknown_tool_raises(t) == [t EXCEPT !.state = "failed", !.exception = "KeyError"]

\* handle_tool lines 198-202 on a name that is not in tool_functions: the
\* coroutine returns the error text
handle_unknown_tool(t) == [t EXCEPT !.state = "done", !.output = HALLUCINATED_TOOL_ERROR]

\* `model if model is not None else "gpt-3.5-turbo-1106"` (line 422)
model_or_default(model) ==
    IF model = None THEN "gpt-3.5-turbo-1106" ELSE model.val[1]

\* models.accumulate_token_usage: the entry of the model is created with
\* the counts, or has the counts added to it
accumulate_token_usage(usage_by_model, model, input_tokens, output_tokens, total_tokens) ==
    IF model \in DOMAIN usage_by_model
    THEN [usage_by_model EXCEPT ![model] =
             [input |-> @.input + input_tokens,
              output |-> @.output + output_tokens,
              total |-> @.total + total_tokens]]
    ELSE Put(usage_by_model, model,
             [input |-> input_tokens, output |-> output_tokens, total |-> total_tokens])

\* a faulty aggregation: the counts go into a fresh accumulator, so what the
\* turn had accumulated before is dropped
usage_of_completion_only(usage_by_model, model, usage) ==
    accumulate_token_usage(EmptyDict, model, usage.prompt_tokens,
                           usage.completion_tokens, usage.total_tokens)

\* the aggregation after a completion (lines 467-473 and 523-529): the
\* response's accumulator receives the usage record of the completion
usage_after_completion(usage_by_model, model, usage) ==
    accumulate_token_usage(usage_by_model, model, usage.prompt_tokens,
                           usage.completion_tokens, usage.total_tokens)

\* the usage record the completion backend returns with a completion: the
\* prompt counts the messages sent, the completion what was generated
CompletionUsage(request, content, tool_calls) ==
    [prompt_tokens |-> Len(request.messages),
     completion_tokens |-> Len(content.val) + Len(tool_calls),
     total_tokens |-> Len(request.messages) + Len(content.val) + Len(tool_calls)]

\* the vision backend accounts for its own model in the accumulator it is
\* given with each query_image
VISION_MODEL == "vision-model"
VisionUsage == [prompt_tokens |-> 5, completion_tokens |-> 2, total_tokens |-> 7]

\* a faulty end of the turn: tool calls in the second response send the
\* turn back to the fan-out
tools_again_after_second(tool_calls) ==
    IF Len(tool_calls) > 0 THEN "tools_executing" ELSE "done"

\* after the second completion lines 530-541 run to the return, whatever the
\* response holds: its tool_calls are not read
after_second_completion(tool_calls) == "done"

NewTask ==
    [state |-> "pending", function_args |-> EmptyDict, output |-> None,
     exception |-> "", sanitizer_calls |-> 0, handler_calls |-> 0,
     vision_calls |-> << >>, search_calls |-> << >>]

\* Inputs of a turn

LongDialogueRoles ==
    <<ROLE_USER, ROLE_ASSISTANT, ROLE_USER, ROLE_ASSISTANT, ROLE_USER, ROLE_ASSISTANT,
      ROLE_USER, ROLE_ASSISTANT, ROLE_USER, ROLE_USER>>

\* caller histories: empty, starting with a system message, starting with
\* another message, and longer than the pruner's budgets
TurnHistories ==
    {HistoryOf(r) : r \in {<< >>, <<ROLE_SYSTEM>>, <<ROLE_USER, ROLE_ASSISTANT>>,
                           LongDialogueRoles}}

\* message_history=None is history_absent with no list; the model is left
\* to the default, or named by the caller
TurnCalls ==
    {[prompt |-> UserMessage, image_bytes |-> img, history_absent |-> ab,
      message_history |-> h, location_address |-> loc, local_time |-> t, model |-> None] :
        img \in {None, Bytes(<<"jpeg">>)}, ab \in {FALSE}, h \in TurnHistories,
        loc \in {None, Str(<<"Paris">>)}, t \in LocalTimes}
    \cup
    {[prompt |-> UserMessage, image_bytes |-> img, history_absent |-> ab,
      message_history |-> h, location_address |-> loc, local_time |-> t, model |-> m] :
        img \in {None, Bytes(<<"jpeg">>)}, ab \in {TRUE}, h \in {<< >>},
        loc \in {None, Str(<<"Paris">>)}, t \in LocalTimes,
        m \in {None, Str(<<"gpt-4o">>)}}

Dict1(k, v) == [x \in {k} |-> v]
Dict2(k1, v1, k2, v2) == Put(Dict1(k1, v1), k2, v2)

\* what the model may ask for in one tool call: name and raw arguments
TurnToolCalls ==
    { [name |-> SEARCH_TOOL_NAME,
       arguments |-> [json |-> "dict", items |-> Dict1(QUERY_PARAM_NAME, Str(<<"weather">>))]],
      [name |-> SEARCH_TOOL_NAME, arguments |-> [json |-> "list", items |-> EmptyDict]],
      [name |-> DUMMY_SEARCH_TOOL_NAME, arguments |-> [json |-> "invalid", items |-> EmptyDict]],
      [name |-> PHOTO_TOOL_NAME,
       arguments |-> [json |-> "dict",
                      items |-> Dict2(PHOTO_TOOL_WEB_SEARCH_PARAM_NAME, Bool(TRUE),
                                      PHOTO_TOOL_TRANSLATION_PARAM_NAME, Bool(FALSE))]],
      [name |-> PHOTO_TOOL_NAME,
       arguments |-> [json |-> "dict",
                      items |-> Dict2(PHOTO_TOOL_WEB_SEARCH_PARAM_NAME, Bool(TRUE),
                                      PHOTO_TOOL_TRANSLATION_PARAM_NAME, Bool(TRUE))]],
      [name |-> "xyz_tool", arguments |-> [json |-> "dict", items |-> EmptyDict]] }

\* the tool-call lists a completion can carry; the backend numbers the calls
ToolCallLists(n) ==
    {[i \in 1..Len(l) |-> ToolCall(<<"call", i>>, l[i].name, l[i].arguments)] :
        l \in SeqsUpTo(TurnToolCalls, n)}

\* the second request carries no catalog, yet nothing keeps the backend from
\* answering it with a tool call
SecondToolCallLists ==
    {<< >>,
     <<ToolCall(<<"call", 9>>, SEARCH_TOOL_NAME,
                [json |-> "dict", items |-> Dict1(QUERY_PARAM_NAME, Str(<<"weather">>))])>>}

CompletionTexts == {Str(<<"answer", "A">>), Str(<<"answer", "B">>)}

\* what the first completion can return: a text and no tool call, or a
\* provisional text with one or more tool calls
FirstCompletions ==
    {[content |-> c, tool_calls |-> << >>] : c \in CompletionTexts}
    \cup {[content |-> Str(<<"answer", "A">>), tool_calls |-> l] :
              l \in ToolCallLists(MaxToolCalls) \ {<< >>}}

SecondCompletions ==
    {[content |-> c, tool_calls |-> << >>] : c \in CompletionTexts}
    \cup {[content |-> Str(<<"answer", "B">>), tool_calls |-> l] :
              l \in SecondToolCallLists \ {<< >>}}

VisionTexts == {Str(<<"\"", "red car", "\"">>), Str(<<"a red car">>)}

\* the search backend's result for a request: a summary that names the query
SearchResultFor(request) ==
    WebSearchResult(<<"results for">> \o request.query.val, Str(<<"provider metadata">>))

InitTurn ==
    /\ TurnIdle
    /\ SanIdle
    /\ PruneIdle
    /\ PhotoIdle
    /\ CtxIdle

\* send_to_assistant from its entry to the first await (lines 419-463)
SendToAssistant(c) ==
    /\ pc = "idle"
    /\ call' = c
    /\ message_history' = prepare_history(c.history_absent, c.message_history, c.prompt,
                                          c.local_time, c.location_address)
    /\ requests' = <<[messages |-> message_history', tools |-> TRUE]>>
    /\ caller_list' = IF copy_history(c.history_absent, c.message_history).shared
                      THEN message_history'
                      ELSE c.message_history
    \* line 425: AssistantResponse(token_usage_by_model={}, capabilities_used=[],
    \* response="", debug_tools="")
    /\ response' = Str(<< >>)
    /\ capabilities_used' = << >>
    /\ token_usage_by_model' = EmptyDict
    /\ pc' = "awaiting_first"
    /\ UNCHANGED <<completions, tasks, completion_order, tools_used,
                   sanVars, pruneVars, photoVars, ctxVars>>

\* the first completion returns (lines 464-503, or 464-541 without tool calls)
FirstCompletionReturns(content, tool_calls) ==
    /\ pc = "awaiting_first"
    /\ completions' = <<[content |-> content, tool_calls |-> tool_calls,
                         usage |-> CompletionUsage(requests[1], content, tool_calls)]>>
    /\ token_usage_by_model' =
           usage_after_completion(token_usage_by_model, model_or_default(call.model),
                                  completions'[1].usage)
    /\ response' = content
    /\ tools_used' = <<[learned_context |-> PyDict(<< >>)]>>
    /\ IF tool_calls_requested(tool_calls)
       THEN /\ message_history' =
                   Append(message_history,
                          [role |-> ROLE_ASSISTANT, content |-> content, tool_calls |-> tool_calls])
            /\ tasks' = [i \in 1..Len(tool_calls) |-> NewTask]
            /\ pc' = "tools_executing"
            /\ UNCHANGED capabilities_used
       ELSE /\ capabilities_used' = finalize_capabilities(capabilities_used)
            /\ pc' = "done"
            /\ UNCHANGED <<message_history, tasks>>
    /\ UNCHANGED <<call, requests, completion_order,
                   caller_list, sanVars, pruneVars, photoVars, ctxVars>>

\* a completion request raises: nothing in the core catches it
CompletionFails ==
    /\ pc \in {"awaiting_first", "awaiting_second"}
    /\ pc' = "aborted"
    /\ UNCHANGED <<call, message_history, requests, completions, tasks, completion_order,
                   capabilities_used, tools_used, response, token_usage_by_model,
                   caller_list, sanVars, pruneVars, photoVars, ctxVars>>

\* handle_tool lines 221-240, after function_to_call has returned
\* function_response: tasks', capabilities_used', tools_used', completion_order'
FinishTool(i, t, caps, function_response) ==
    LET function_name == completions[1].tool_calls[i].name
    IN  /\ capabilities_used' = append_capabilities(caps, handle_tool_capability(function_name))
        /\ tools_used' =
               Append(tools_used,
                      create_debug_tool_info_object(
                          function_name, t.function_args, capabilities_used',
                          IF function_response.type = "WebSearchResult"
                          THEN function_response.search_provider_metadata ELSE None))
        /\ tasks' = [tasks EXCEPT ![i] = [t EXCEPT !.state = "done",
                                                   !.output = tool_output(function_response)]]
        /\ completion_order' = Append(completion_order, i)

RaiseInTool(i, t, exc) ==
    /\ tasks' = [tasks EXCEPT ![i] = [t EXCEPT !.state = "failed", !.exception = exc]]
    /\ completion_order' = Append(completion_order, i)
    /\ UNCHANGED <<capabilities_used, tools_used>>

\* The event loop runs the coroutines gather scheduled, in the order it
\* scheduled them; each runs from its entry to its first await (or its end).
StartTool(i) ==
    /\ pc \in {"tools_executing", "aborted"}
    /\ i \in 1..Len(tasks)
    /\ tasks[i].state = "pending"
    /\ \A j \in 1..(i - 1) : tasks[j].state # "pending"
    /\ \E tool_call \in {completions[1].tool_calls[i]} :
       \E function_name \in {tool_call.name} :
           IF function_name \notin tool_functions
           THEN /\ tasks' = [tasks EXCEPT ![i] = handle_unknown_tool(@)]
                /\ completion_order' = Append(completion_order, i)
                /\ UNCHANGED <<capabilities_used, tools_used>>
           ELSE
       \* each value below is computed once, where the handler computes it
       \E prep \in {prepare_tool_arguments(tool_call, call.prompt, call.image_bytes,
                                           call.location_address, call.local_time,
                                           WebSearchHandle, VisionHandle, PyDict(<< >>),
                                           TokenUsageHandle, CapabilitiesHandle)} :
       \E prepared \in {[tasks[i] EXCEPT !.sanitizer_calls = 1,
                                          !.function_args = prep.args]} :
       \E invoked \in {[prepared EXCEPT !.handler_calls = 1]} :
           IF prep.raised # ""
           THEN RaiseInTool(i, [tasks[i] EXCEPT !.sanitizer_calls = 1], prep.raised)
           ELSE IF function_name = SEARCH_TOOL_NAME
           THEN /\ tasks' = [tasks EXCEPT ![i] =
                                [invoked EXCEPT !.state = "await_search",
                                                !.search_calls = <<tool_search_request(prep.args)>>]]
                /\ UNCHANGED <<capabilities_used, tools_used, completion_order>>
           ELSE IF function_name = DUMMY_SEARCH_TOOL_NAME
           THEN FinishTool(i, invoked, capabilities_used, handle_general_knowledge_tool(prep.args))
           ELSE
       \E photo \in {photo_tool_begin(prep.args)} :
           IF photo.branch = "no_photo"
           THEN FinishTool(i, invoked, capabilities_used, NO_PHOTO_ERROR)
           ELSE /\ tasks' = [tasks EXCEPT ![i] =
                                [invoked EXCEPT !.state = IF photo.branch = "vision"
                                                          THEN "await_vision"
                                                          ELSE "await_vision_then_search",
                                                !.vision_calls = photo.vision_request]]
                /\ capabilities_used' = append_capabilities(capabilities_used, photo.capability)
                /\ UNCHANGED <<tools_used, completion_order>>
    /\ UNCHANGED <<pc, call, message_history, requests, completions, response,
                   token_usage_by_model,
                   caller_list, sanVars, pruneVars, photoVars, ctxVars>>

\* vision.query_image returns to the photo tool
VisionReturns(i, text) ==
    /\ pc \in {"tools_executing", "aborted"}
    /\ i \in 1..Len(tasks)
    /\ IF tasks[i].state = "await_vision"
       THEN FinishTool(i, tasks[i], capabilities_used, text)
       ELSE /\ tasks[i].state = "await_vision_then_search"
            /\ tasks' = [tasks EXCEPT ![i] =
                            [@ EXCEPT !.state = "await_photo_search",
                                      !.search_calls =
                                          <<photo_tool_search_request(tasks[i].function_args, text)>>]]
            /\ UNCHANGED <<capabilities_used, tools_used, completion_order>>
    /\ token_usage_by_model' =
           accumulate_token_usage(token_usage_by_model, VISION_MODEL,
                                  VisionUsage.prompt_tokens, VisionUsage.completion_tokens,
                                  VisionUsage.total_tokens)
    /\ UNCHANGED <<pc, call, message_history, requests, completions, response,
                   caller_list, sanVars, pruneVars, photoVars, ctxVars>>

\* web_search.search_web returns to handle_tool or to the photo tool
SearchReturns(i) ==
    /\ pc \in {"tools_executing", "aborted"}
    /\ i \in 1..Len(tasks)
    /\ tasks[i].state \in {"await_search", "await_photo_search"}
    /\ FinishTool(i, tasks[i], capabilities_used, SearchResultFor(tasks[i].search_calls[1]))
    /\ UNCHANGED <<pc, call, message_history, requests, completions, response,
                   token_usage_by_model,
                   caller_list, sanVars, pruneVars, photoVars, ctxVars>>

\* the vision or the search backend raises inside a handler
BackendFails(i) ==
    /\ pc \in {"tools_executing", "aborted"}
    /\ i \in 1..Len(tasks)
    /\ tasks[i].state \in {"await_search", "await_photo_search", "await_vision",
                           "await_vision_then_search"}
    /\ RaiseInTool(i, tasks[i], "BackendError")
    /\ UNCHANGED <<pc, call, message_history, requests, completions, response,
                   token_usage_by_model,
                   caller_list, sanVars, pruneVars, photoVars, ctxVars>>

\* gather's future has its result: every handler returned (lines 503-520)
GatherReturns ==
    /\ pc = "tools_executing"
    /\ gather_ready(tasks)
    /\ message_history' =
           message_history \o tool_messages(completions[1].tool_calls,
                                            gather(tasks, completion_order))
    /\ requests' = Append(requests, [messages |-> message_history', tools |-> FALSE])
    /\ pc' = "awaiting_second"
    /\ UNCHANGED <<call, completions, tasks, completion_order, capabilities_used,
                   tools_used, response, token_usage_by_model,
                   caller_list, sanVars, pruneVars, photoVars, ctxVars>>

\* gather's future has the first exception of a handler: it leaves
\* send_to_assistant at line 503; the other handlers are not cancelled
GatherRaises ==
    /\ pc = "tools_executing"
    /\ \E i \in 1..Len(tasks) : tasks[i].state = "failed"
    /\ pc' = "aborted"
    /\ UNCHANGED <<call, message_history, requests, completions, tasks, completion_order,
                   capabilities_used, tools_used, response, token_usage_by_model,
                   caller_list, sanVars, pruneVars, photoVars, ctxVars>>

\* the second completion returns (lines 522-541)
SecondCompletionReturns(content, tool_calls) ==
    /\ pc = "awaiting_second"
    /\ completions' = Append(completions,
                             [content |-> content, tool_calls |-> tool_calls,
                              usage |-> CompletionUsage(requests[2], content, tool_calls)])
    /\ token_usage_by_model' =
           usage_after_completion(token_usage_by_model, model_or_default(call.model),
                                  completions'[2].usage)
    /\ response' = content
    /\ capabilities_used' = finalize_capabilities(capabilities_used)
    /\ pc' = after_second_completion(tool_calls)
    /\ UNCHANGED <<call, message_history, requests, tasks, completion_order, tools_used,
                   caller_list, sanVars, pruneVars, photoVars, ctxVars>>

Next ==
    \/ \E c \in TurnCalls : SendToAssistant(c)
    \/ \E r \in FirstCompletions : FirstCompletionReturns(r.content, r.tool_calls)
    \/ CompletionFails
    \/ \E i \in 1..MaxToolCalls : StartTool(i)
    \/ \E i \in 1..MaxToolCalls, text \in VisionTexts : VisionReturns(i, text)
    \/ \E i \in 1..MaxToolCalls : SearchReturns(i)
    \/ \E i \in 1..MaxToolCalls : BackendFails(i)
    \/ GatherReturns
    \/ GatherRaises
    \/ \E r \in SecondCompletions : SecondCompletionReturns(r.content, r.tool_calls)

Spec == InitTurn /\ [][Next]_vars

\* The turn when every awaited call eventually returns or fails and the
\* event loop keeps running what is ready: no step that can be taken is put
\* off forever.
FairSpec == Spec /\ WF_vars(Next)

----------------------------------------------------------------------------
(* The photo tool on its own: handle_photo_tool called with the arguments *)
(* that prepare_tool_arguments builds for it                              *)

\* the flags a model-written payload can carry: each absent, true or false
PhotoFlagPayloads ==
    UNION {[ks -> {Bool(TRUE), Bool(FALSE)}] :
              ks \in SUBSET {PHOTO_TOOL_WEB_SEARCH_PARAM_NAME, PHOTO_TOOL_TRANSLATION_PARAM_NAME}}

PhotoToolArgs ==
    {prepare_tool_arguments(ToolCall("call_1", PHOTO_TOOL_NAME, [json |-> "dict", items |-> o]),
                            UserMessage, img, loc, t, WebSearchHandle, VisionHandle,
                            PyDict(<< >>), TokenUsageHandle, CapabilitiesHandle).args :
        o \in PhotoFlagPayloads, img \in Images, loc \in Locations, t \in LocalTimes}

InitPhoto ==
    /\ photo_pc = "called"
    /\ photo_call \in [function_args : PhotoToolArgs,
                       capabilities_used : {<< >>, <<CAP_WEB_SEARCH>>}]
    /\ photo_capabilities = photo_call.capabilities_used
    /\ photo_vision_calls = << >>
    /\ photo_vision_response = None
    /\ photo_search_calls = << >>
    /\ photo_out = None
    /\ TurnIdle
    /\ SanIdle
    /\ PruneIdle
    /\ CtxIdle

\* handle_photo_tool from its entry to its first await or to its return
PhotoToolBegins ==
    /\ photo_pc = "called"
    /\ LET photo == photo_tool_begin(photo_call.function_args)
       IN  IF photo.branch = "no_photo"
           THEN /\ photo_out' = NO_PHOTO_ERROR
                /\ photo_pc' = "returned"
                /\ UNCHANGED <<photo_capabilities, photo_vision_calls>>
           ELSE /\ photo_capabilities' = photo_capabilities \o photo.capability
                /\ photo_vision_calls' = photo_vision_calls \o photo.vision_request
                /\ photo_pc' = IF photo.branch = "vision" THEN "await_vision"
                                                          ELSE "await_vision_then_search"
                /\ UNCHANGED photo_out
    /\ UNCHANGED <<photo_call, photo_vision_response, photo_search_calls,
                   turnVars, sanVars, pruneVars, ctxVars>>

\* vision.query_image returns: the vision branch returns the text, the
\* reverse-image-search branch goes on to search_web (line 350)
PhotoVisionReturns(text) ==
    /\ photo_pc \in {"await_vision", "await_vision_then_search"}
    /\ photo_vision_response' = text
    /\ IF photo_pc = "await_vision"
       THEN /\ photo_out' = text
            /\ photo_pc' = "returned"
            /\ UNCHANGED photo_search_calls
       ELSE /\ photo_search_calls' =
                   Append(photo_search_calls,
                          photo_tool_search_request(photo_call.function_args, text))
            /\ photo_pc' = "await_search"
            /\ UNCHANGED photo_out
    /\ UNCHANGED <<photo_call, photo_capabilities, photo_vision_calls,
                   turnVars, sanVars, pruneVars, ctxVars>>

\* web_search.search_web returns and its result is returned (line 350)
PhotoSearchReturns ==
    /\ photo_pc = "await_search"
    /\ photo_out' = SearchResultFor(photo_search_calls[1])
    /\ photo_pc' = "returned"
    /\ UNCHANGED <<photo_call, photo_capabilities, photo_vision_calls, photo_vision_response,
                   photo_search_calls, turnVars, sanVars, pruneVars, ctxVars>>

\* the awaited backend raises; nothing in handle_photo_tool catches it
PhotoBackendFails ==
    /\ photo_pc \in {"await_vision", "await_vision_then_search", "await_search"}
    /\ photo_pc' = "raised"
    /\ UNCHANGED <<photo_call, photo_capabilities, photo_vision_calls, photo_vision_response,
                   photo_search_calls, photo_out, turnVars, sanVars, pruneVars, ctxVars>>

NextPhoto ==
    \/ PhotoToolBegins
    \/ \E text \in VisionTexts : PhotoVisionReturns(text)
    \/ PhotoSearchReturns
    \/ PhotoBackendFails

SpecPhoto == InitPhoto /\ [][NextPhoto]_vars

----------------------------------------------------------------------------
(* The context formatter on its own *)

LearnedKeys == {"name", "current_time", "location"}
LearnedValues == {Str(<<"Bob">>), Str(<<"Mars">>), None}

\* the mappings of at most MaxLearned entries, each in every insertion order
LearnedContexts ==
    UNION {{PyDict([n \in 1..(2 * Len(ks)) |-> IF n % 2 = 1 THEN ks[(n + 1) \div 2]
                                                             ELSE vs[n \div 2]]) :
               vs \in [1..Len(ks) -> LearnedValues]} :
           ks \in {q \in SeqsUpTo(LearnedKeys, MaxLearned) :
                      \A a, b \in 1..Len(q) : a # b => q[a] # q[b]}}

InitContext ==
    /\ ctx_pc = "called"
    /\ ctx_call \in [local_time : LocalTimes \cup {Str(<< >>)},
                     location : Locations,
                     learned_context : LearnedContexts \cup {None}]
    /\ ctx_out = None
    /\ TurnIdle
    /\ SanIdle
    /\ PruneIdle
    /\ PhotoIdle

CreateContextSystemMessage ==
    /\ ctx_pc = "called"
    /\ ctx_out' = _create_context_system_message(ctx_call.local_time, ctx_call.location,
                                                 ctx_call.learned_context)
    /\ ctx_pc' = "returned"
    /\ UNCHANGED <<ctx_call, turnVars, sanVars, pruneVars, photoVars>>

NextContext == CreateContextSystemMessage

SpecContext == InitContext /\ [][NextContext]_vars

----------------------------------------------------------------------------
(* Properties of the turn *)

FirstToolCalls == IF completions = << >> THEN << >> ELSE completions[1].tool_calls

\* the messages the turn has appended after the assistant's tool-call message
AppendedAfterFanOut ==
    SubSeq(message_history, Len(requests[1].messages) + 2, Len(message_history))

Hallucinated(i) == FirstToolCalls[i].name \notin tool_functions

\* the call records a capability when its handler runs to its end
RecordsCapability(i) ==
    \/ FirstToolCalls[i].name \in {SEARCH_TOOL_NAME, DUMMY_SEARCH_TOOL_NAME}
    \/ /\ FirstToolCalls[i].name = PHOTO_TOOL_NAME
       /\ call.image_bytes.type # "NoneType"
       /\ Len(call.image_bytes.val) > 0

\* C1: once the fan-in is over, the history holds exactly one tool-role
\* message per requested call, in request order, the i-th with the id and
\* the name of the i-th call and the output its own handler produced,
\* whatever the order in which the handlers finished.
C1_ToolMessagesInRequestOrder ==
    (pc \in {"awaiting_second", "done"} /\ Len(FirstToolCalls) > 0) =>
        /\ Len(AppendedAfterFanOut) = Len(FirstToolCalls)
        /\ \A i \in 1..Len(FirstToolCalls) :
              /\ AppendedAfterFanOut[i].role = ROLE_TOOL
              /\ AppendedAfterFanOut[i].tool_call_id = FirstToolCalls[i].id
              /\ AppendedAfterFanOut[i].name = FirstToolCalls[i].name
              /\ AppendedAfterFanOut[i].content = tasks[i].output
        /\ requests[2].messages = message_history

\* two calls whose handlers finished in the reverse of the request order
\* with different outputs, after the fan-in
C1_Witness ==
    /\ pc = "awaiting_second"
    /\ Len(tasks) = 2
    /\ completion_order = <<2, 1>>
    /\ tasks[1].output # tasks[2].output

\* C2: while a tool handler of the turn has not returned, no tool-role
\* message is appended and no second completion request is issued, and the
\* turn is not DONE: a handler that never returns keeps the turn from DONE.
C2_FanInWaitsForAll ==
    (\E i \in 1..Len(tasks) : tasks[i].state # "done") =>
        /\ Len(requests) = 1
        /\ AppendedAfterFanOut = << >>
        /\ pc \notin {"awaiting_second", "done"}

\* the second request is issued after a handler went through both of its
\* backend calls while another handler had long returned
C2_Witness ==
    /\ pc = "awaiting_second"
    /\ Len(requests) = 2
    /\ Len(tasks) = 2
    /\ \E i \in 1..2 : tasks[i].vision_calls # << >> /\ tasks[i].search_calls # << >>
    /\ \A i \in 1..2 : tasks[i].state = "done"

\* C3: once the vision or the search backend has raised inside a handler,
\* the turn appends no tool-role message, issues no second completion
\* request and returns no response, whatever the other handlers do; the
\* only step left to send_to_assistant is the exception leaving the fan-in.
C3_HandlerFailureAbortsTurn ==
    (\E i \in 1..Len(tasks) : tasks[i].exception = "BackendError") =>
        /\ pc \in {"tools_executing", "aborted"}
        /\ Len(requests) = 1
        /\ AppendedAfterFanOut = << >>
        /\ Len(completions) = 1
        /\ (pc = "tools_executing" => ENABLED GatherRaises)

\* the turn is aborted by one failed handler while another one has returned
\* and recorded its capability
C3_Witness ==
    /\ pc = "aborted"
    /\ Len(tasks) = 2
    /\ \E i, j \in 1..2 : /\ tasks[i].exception = "BackendError"
                          /\ tasks[j].state = "done"
                          /\ capabilities_used # << >>

\* C4: a call whose name is not in the handler table never fails: no
\* sanitizer, handler or backend is invoked for it, no debug record names
\* it, it returns the hallucination error text, which is the content of its
\* tool-role message; a turn whose calls are all of that kind records no
\* capability in its handlers and always gets to the second request.
C4_UnknownToolAbsorbed ==
    /\ \A i \in 1..Len(tasks) : Hallucinated(i) =>
          /\ tasks[i].state \in {"pending", "done"}
          /\ tasks[i].sanitizer_calls = 0
          /\ tasks[i].handler_calls = 0
          /\ tasks[i].vision_calls = << >> /\ tasks[i].search_calls = << >>
          /\ tasks[i].state = "done" => tasks[i].output = HALLUCINATED_TOOL_ERROR
          /\ \A k \in 2..Len(tools_used) : tools_used[k].tool # FirstToolCalls[i].name
          /\ Len(requests) = 2 => requests[2].messages[Len(requests[1].messages) + 1 + i].content
                                      = HALLUCINATED_TOOL_ERROR
    /\ (Len(tasks) > 0 /\ \A i \in 1..Len(tasks) : Hallucinated(i)) =>
          /\ pc # "done" => capabilities_used = << >>
          /\ pc = "aborted" => Len(requests) = 2
          /\ Len(tools_used) = 1

\* the second request is issued in a turn that called an unknown tool
\* beside a search
C4_Witness ==
    /\ pc = "awaiting_second"
    /\ Len(tasks) = 2
    /\ Hallucinated(2)
    /\ FirstToolCalls[1].name = SEARCH_TOOL_NAME
    /\ AppendedAfterFanOut[2].content = HALLUCINATED_TOOL_ERROR

\* C6: at DONE the response is the text of the last completion request of
\* the turn: without tool calls there is one request, no handler runs and
\* the first text is returned; with tool calls there are two requests and
\* the second text is returned.
C6_ResponseIsLastCompletionText ==
    pc = "done" =>
        /\ Len(requests) = Len(completions)
        /\ response = completions[Len(completions)].content
        /\ IF Len(FirstToolCalls) = 0
           THEN /\ Len(requests) = 1
                /\ tasks = << >>
                /\ response = completions[1].content
           ELSE /\ Len(requests) = 2
                /\ response = completions[2].content
                /\ Len(tasks) = Len(FirstToolCalls)

\* a turn with a tool call is DONE with a second text that differs from the
\* provisional one
C6_Witness ==
    /\ pc = "done"
    /\ Len(completions) = 2
    /\ completions[1].content # completions[2].content
    /\ response = completions[2].content

\* C7: at DONE the capability list is not empty; it is the single default
\* assistant-knowledge tag exactly when no call of the turn recorded a
\* capability (no call, unknown names, photo calls without an image), and
\* otherwise holds one tag per recording call and no default tag.
C7_CapabilityDefault ==
    pc = "done" =>
        LET recording == {i \in 1..Len(FirstToolCalls) : RecordsCapability(i)}
        IN  /\ Len(capabilities_used) >= 1
            /\ recording = {} => capabilities_used = <<CAP_ASSISTANT_KNOWLEDGE>>
            /\ recording # {} => Len(capabilities_used) = Cardinality(recording)

\* a turn whose two calls record nothing (an unknown tool, a photo call
\* without an image) is DONE with the default capability
C7_Witness ==
    /\ pc = "done"
    /\ Len(tasks) = 2
    /\ \E i \in 1..2 : tasks[i].output = NO_PHOTO_ERROR
    /\ \E i \in 1..2 : Hallucinated(i)
    /\ capabilities_used = <<CAP_ASSISTANT_KNOWLEDGE>>

\* C8: the first message of every history submitted to a completion request
\* is a system message: the caller's own when its history starts with one,
\* else the default system message.
C8_FirstMessageIsSystem ==
    \A k \in 1..Len(requests) :
        /\ requests[k].messages[1].role = ROLE_SYSTEM
        /\ IF ~call.history_absent /\ call.message_history # << >>
              /\ call.message_history[1].role = ROLE_SYSTEM
           THEN requests[k].messages[1] = call.message_history[1]
           ELSE requests[k].messages[1] = Message(ROLE_SYSTEM, Str(<<SYSTEM_MESSAGE>>))

\* the second request of a turn whose caller history starts with a user
\* message and is long enough to be pruned
C8_Witness ==
    /\ Len(requests) = 2
    /\ Len(call.message_history) > 8
    /\ call.message_history[1].role = ROLE_USER
    /\ requests[2].messages[1].role = ROLE_SYSTEM

----------------------------------------------------------------------------
(* Properties of prepare_tool_arguments *)

\* C5: for a known tool and every payload (no JSON, a JSON object, JSON that
\* is no object) prepare_tool_arguments returns a mapping and never raises.
C5_SanitizerNeverRaises ==
    san_pc = "finished" => san_out.raised = ""

----------------------------------------------------------------------------
(* Properties of _prune_history *)

CountRole(h, role) == Cardinality({k \in 1..Len(h) : h[k].role = role})

Min(a, b) == IF a < b THEN a ELSE b

\* the k-th message of h is within the budget of its role, counted from the
\* most recent message
WithinBudget(h, k) ==
    LET later == Cardinality({j \in (k + 1)..Len(h) : h[j].role = h[k].role})
    IN  CASE h[k].role = ROLE_USER -> later < user_messages_remaining
          [] h[k].role = ROLE_ASSISTANT -> later < assistant_messages_remaining
          [] OTHER -> TRUE

RECURSIVE RetainedFrom(_, _)
\* the subsequence of h, from index k on, of the messages within budget
RetainedFrom(h, k) ==
    IF k > Len(h) THEN << >>
    ELSE (IF WithinBudget(h, k) THEN <<h[k]>> ELSE << >>) \o RetainedFrom(h, k + 1)

\* C9: _prune_history returns the subsequence of its input that keeps every
\* system and tool message, the most recent min(5, #user) user messages and
\* the most recent min(3, #assistant) assistant messages, in their order.
C9_PruneKeepsMostRecent ==
    prune_pc = "returned" =>
        /\ prune_out = RetainedFrom(prune_in, 1)
        /\ CountRole(prune_out, ROLE_USER)
               = Min(user_messages_remaining, CountRole(prune_in, ROLE_USER))
        /\ CountRole(prune_out, ROLE_ASSISTANT)
               = Min(assistant_messages_remaining, CountRole(prune_in, ROLE_ASSISTANT))
        /\ CountRole(prune_out, ROLE_SYSTEM) = CountRole(prune_in, ROLE_SYSTEM)
        /\ CountRole(prune_out, ROLE_TOOL) = CountRole(prune_in, ROLE_TOOL)

\* a dialogue over both budgets at once has been pruned
C9_Witness ==
    /\ prune_pc = "returned"
    /\ CountRole(prune_in, ROLE_USER) > user_messages_remaining
    /\ CountRole(prune_in, ROLE_ASSISTANT) > assistant_messages_remaining
    /\ Len(prune_out) = user_messages_remaining + assistant_messages_remaining

\* C10 as stated: a conversation of fewer than 3 + 5 messages comes back
\* unchanged, for every mix of roles.
C10_ShortHistoryUnchanged ==
    (prune_pc = "returned"
     /\ Len(prune_in) < assistant_messages_remaining + user_messages_remaining) =>
        prune_out = prune_in

\* C10, amended: a conversation with at most 5 user messages and at most 3
\* assistant messages comes back unchanged.
C10_WithinBudgetsUnchanged ==
    (prune_pc = "returned"
     /\ CountRole(prune_in, ROLE_USER) <= user_messages_remaining
     /\ CountRole(prune_in, ROLE_ASSISTANT) <= assistant_messages_remaining) =>
        prune_out = prune_in

\* a conversation that fills both budgets exactly has come back unchanged
C10_Witness ==
    /\ prune_pc = "returned"
    /\ CountRole(prune_in, ROLE_USER) = user_messages_remaining
    /\ CountRole(prune_in, ROLE_ASSISTANT) = assistant_messages_remaining
    /\ prune_out = prune_in

\* C11: _prune_history is idempotent: pruning the list that a first pruning
\* returned gives back that same list, whatever the input was.
C11_PruneIdempotent ==
    prune_pc = "returned_again" => prune_again = prune_out

\* an over-budget history has been pruned, shortened, and pruned again
C11_Witness ==
    /\ prune_pc = "returned_again"
    /\ Len(prune_out) < Len(prune_in)
    /\ CountRole(prune_in, ROLE_USER) > user_messages_remaining
    /\ CountRole(prune_in, ROLE_ASSISTANT) > assistant_messages_remaining

\* the keys prepare_tool_arguments sets itself for the tool called, whatever
\* the payload holds, and the values it gives them
InjectedArgs ==
    LET c == san_call
        common == [k \in {"location"} |-> IF Truthy(c.location) THEN c.location
                                                                ELSE Str(<<"unknown">>)]
        photo == [k \in {"location", "image_bytes", "vision", "web_search", "local_time",
                         "learned_context", "token_usage_by_model", "capabilities_used"} |->
                     CASE k = "location" -> common["location"]
                       [] k = "image_bytes" -> c.image_bytes
                       [] k = "vision" -> VisionHandle
                       [] k = "web_search" -> WebSearchHandle
                       [] k = "local_time" -> c.local_time
                       [] k = "learned_context" -> PyDict(<< >>)
                       [] k = "token_usage_by_model" -> TokenUsageHandle
                       [] k = "capabilities_used" -> CapabilitiesHandle]
    IN  IF c.tool_call.name = PHOTO_TOOL_NAME THEN photo ELSE common

\* the declared parameters of the tool called
DeclaredParameters == TOOLS[function_description(san_call.tool_call.name)].properties

\* the Python type a declared JSON-schema type stands for
PythonTypeOf(declared) == IF declared = "string" THEN "str" ELSE "bool"

\* the sanitizer was given a payload that is a JSON object, and is done
SanitizedObject ==
    /\ san_pc = "finished"
    /\ san_call.tool_call.arguments.json = "dict"

\* C12: for a payload that is a JSON object the sanitizer returns, and every
\* key of the result is a declared parameter holding a value of exactly the
\* declared type, or a caller-injected key outside the schema holding the
\* caller's value; an undeclared key of the payload and a boolean parameter
\* given a non-boolean never come out with the model's value.
C12_KeysMatchSchemaOrInjected ==
    SanitizedObject =>
        LET items == san_call.tool_call.arguments.items
            args == san_out.args
        IN  /\ san_out.raised = ""
            /\ \A k \in DOMAIN args :
                   \/ /\ k \in DOMAIN DeclaredParameters
                      /\ args[k].type = PythonTypeOf(DeclaredParameters[k])
                   \/ /\ k \notin DOMAIN DeclaredParameters
                      /\ k \in DOMAIN InjectedArgs
                      /\ args[k] = InjectedArgs[k]
            /\ \A k \in DOMAIN items :
                   /\ k \notin DOMAIN DeclaredParameters =>
                          k \notin DOMAIN args \/ items[k] # args[k]
                   /\ (k \in DOMAIN DeclaredParameters
                       /\ DeclaredParameters[k] = "boolean"
                       /\ items[k].type # "bool") => k \notin DOMAIN args

\* the photo tool was called with an undeclared key and with a boolean
\* parameter written as the string "true", and both are gone
C12_Witness ==
    /\ SanitizedObject
    /\ san_call.tool_call.name = PHOTO_TOOL_NAME
    /\ "foo" \in DOMAIN san_call.tool_call.arguments.items
    /\ PHOTO_TOOL_TRANSLATION_PARAM_NAME \in DOMAIN san_call.tool_call.arguments.items
    /\ san_call.tool_call.arguments.items[PHOTO_TOOL_TRANSLATION_PARAM_NAME] = Str(<<"true">>)
    /\ "foo" \notin DOMAIN san_out.args
    /\ PHOTO_TOOL_TRANSLATION_PARAM_NAME \notin DOMAIN san_out.args

\* C13 as stated: a string-typed declared parameter given a value that is
\* not a string is absent from the returned mapping.
C13_NonStringOmitted ==
    SanitizedObject =>
        \A k \in DOMAIN san_call.tool_call.arguments.items :
            (k \in DOMAIN DeclaredParameters
             /\ DeclaredParameters[k] = "string"
             /\ san_call.tool_call.arguments.items[k].type # "str") =>
                k \notin DOMAIN san_out.args

\* C13, amended: a string-typed declared parameter given a value that is not
\* a string loses the model's value; the parameter is query (the only
\* string-typed parameter of any tool) and the returned mapping holds it
\* with the raw user utterance.
C13_NonStringReplacedByUtterance ==
    SanitizedObject =>
        \A k \in DOMAIN san_call.tool_call.arguments.items :
            (k \in DOMAIN DeclaredParameters
             /\ DeclaredParameters[k] = "string"
             /\ san_call.tool_call.arguments.items[k].type # "str") =>
                /\ k = QUERY_PARAM_NAME
                /\ k \in DOMAIN san_out.args
                /\ san_out.args[k] = san_call.user_message

\* the search tool was called with query 42 and the sanitizer is done
C13_Witness ==
    /\ SanitizedObject
    /\ san_call.tool_call.name = SEARCH_TOOL_NAME
    /\ QUERY_PARAM_NAME \in DOMAIN san_call.tool_call.arguments.items
    /\ san_call.tool_call.arguments.items[QUERY_PARAM_NAME] = PyInt("42")
    /\ san_out.raised = ""

\* the location every returned mapping must hold
ExpectedLocation ==
    IF san_call.location # None /\ san_call.location # Str(<< >>)
    THEN san_call.location
    ELSE Str(<<"unknown">>)

\* C14 as stated: whenever the sanitizer returns, the result holds location
\* (the caller's when present and non-empty, else "unknown") and query: the
\* model's value when the payload supplied one, the raw user utterance when
\* the payload has no query.
C14_LocationAndModelQuery ==
    (san_pc = "finished" /\ san_out.raised = "") =>
        LET items == ParsedArgs(san_call.tool_call.arguments).items
            args == san_out.args
        IN  /\ "location" \in DOMAIN args
            /\ args["location"] = ExpectedLocation
            /\ QUERY_PARAM_NAME \in DOMAIN args
            /\ args[QUERY_PARAM_NAME] =
                   IF QUERY_PARAM_NAME \in DOMAIN items
                   THEN items[QUERY_PARAM_NAME]
                   ELSE san_call.user_message

\* C14, amended: whenever the sanitizer returns, the result holds location
\* (the caller's when present and non-empty, else "unknown") and query: the
\* model's value when the payload supplied a string, the raw user utterance
\* when the payload has no query or one that is not a string.
C14_LocationAndValidQuery ==
    (san_pc = "finished" /\ san_out.raised = "") =>
        LET items == ParsedArgs(san_call.tool_call.arguments).items
            args == san_out.args
        IN  /\ "location" \in DOMAIN args
            /\ args["location"] = ExpectedLocation
            /\ QUERY_PARAM_NAME \in DOMAIN args
            /\ args[QUERY_PARAM_NAME] =
                   IF QUERY_PARAM_NAME \in DOMAIN items
                      /\ items[QUERY_PARAM_NAME].type = "str"
                   THEN items[QUERY_PARAM_NAME]
                   ELSE san_call.user_message

\* a call without a location whose payload supplied a query and a location
\* of its own has been sanitized: the query is the model's, the location is
\* "unknown"
C14_Witness ==
    /\ san_pc = "finished"
    /\ san_out.raised = ""
    /\ san_call.location = Str(<< >>)
    /\ DOMAIN san_call.tool_call.arguments.items = {QUERY_PARAM_NAME, "location"}
    /\ san_out.args[QUERY_PARAM_NAME] = Str(<<"weather">>)
    /\ san_out.args["location"] = Str(<<"unknown">>)

\* the photo tool was called without an image
PhotoWithoutImage ==
    /\ photo_pc # "idle"
    /\ \/ photo_call.function_args["image_bytes"] = None
       \/ photo_call.function_args["image_bytes"] = Bytes(<< >>)

\* C15: called with no image (absent or of length zero) the photo tool, for
\* every combination of the two flags, returns the no-photo error text: it
\* never raises, never calls the vision or the search backend and leaves
\* the capability list as it found it.
C15_NoPhotoReturnsError ==
    (PhotoWithoutImage /\ photo_pc # "called") =>
        /\ photo_pc = "returned"
        /\ photo_out = NO_PHOTO_ERROR
        /\ photo_vision_calls = << >>
        /\ photo_search_calls = << >>
        /\ photo_capabilities = photo_call.capabilities_used

\* the photo tool has returned from a call with zero-length image bytes that
\* asked for reverse image search and no translation
C15_Witness ==
    /\ photo_pc = "returned"
    /\ photo_call.function_args["image_bytes"] = Bytes(<< >>)
    /\ PHOTO_TOOL_WEB_SEARCH_PARAM_NAME \in DOMAIN photo_call.function_args
    /\ photo_call.function_args[PHOTO_TOOL_WEB_SEARCH_PARAM_NAME] = Bool(TRUE)
    /\ PHOTO_TOOL_TRANSLATION_PARAM_NAME \in DOMAIN photo_call.function_args
    /\ photo_call.function_args[PHOTO_TOOL_TRANSLATION_PARAM_NAME] = Bool(FALSE)
    /\ photo_out = NO_PHOTO_ERROR

\* the photo tool was called with an image, translate true and the
\* reverse-image-search flag given
PhotoTranslateWithImage ==
    /\ photo_pc # "idle"
    /\ photo_call.function_args["image_bytes"] = Bytes(<<"jpeg">>)
    /\ PHOTO_TOOL_TRANSLATION_PARAM_NAME \in DOMAIN photo_call.function_args
    /\ photo_call.function_args[PHOTO_TOOL_TRANSLATION_PARAM_NAME] = Bool(TRUE)
    /\ PHOTO_TOOL_WEB_SEARCH_PARAM_NAME \in DOMAIN photo_call.function_args

\* the same keyword arguments with the reverse-image-search flag negated
OtherSearchFlag(function_args) ==
    Put(function_args, PHOTO_TOOL_WEB_SEARCH_PARAM_NAME,
        IF function_args[PHOTO_TOOL_WEB_SEARCH_PARAM_NAME] = Bool(TRUE)
        THEN Bool(FALSE) ELSE Bool(TRUE))

\* the one request the vision branch makes: the description prompt followed
\* by the grounding block, the query and the image
DescriptionRequest(function_args) ==
    [system_message |->
         Str(<<VISION_PHOTO_DESCRIPTION_SYSTEM_MESSAGE, "\n\n">>
             \o _create_context_system_message(function_args["local_time"],
                                               function_args["location"],
                                               function_args["learned_context"]).val),
     query |-> function_args[QUERY_PARAM_NAME],
     image_bytes |-> function_args["image_bytes"]]

\* C16: with an image and translate true, the photo tool does the same
\* whether reverse image search is true or false: one vision request with the
\* description prompt, no web search, the vision capability appended, and
\* the vision backend's text returned.
C16_TranslationOverridesSearch ==
    (PhotoTranslateWithImage /\ photo_pc # "called") =>
        /\ photo_tool_begin(photo_call.function_args)
               = photo_tool_begin(OtherSearchFlag(photo_call.function_args))
        /\ photo_vision_calls = <<DescriptionRequest(photo_call.function_args)>>
        /\ photo_search_calls = << >>
        /\ photo_capabilities = Append(photo_call.capabilities_used, CAP_VISION)
        /\ photo_pc \in {"await_vision", "returned", "raised"}
        /\ photo_pc = "returned" => photo_out = photo_vision_response

\* the photo tool has returned the vision text from a call with an image
\* and both flags true
C16_Witness ==
    /\ PhotoTranslateWithImage
    /\ photo_call.function_args[PHOTO_TOOL_WEB_SEARCH_PARAM_NAME] = Bool(TRUE)
    /\ photo_pc = "returned"
    /\ photo_out = Str(<<"a red car">>)
    /\ Len(photo_vision_calls) = 1

\* the first completion asked for one call, of a tool the dispatcher knows,
\* and the dispatcher has run for it
SingleKnownCallDispatched ==
    /\ Len(FirstToolCalls) = 1
    /\ FirstToolCalls[1].name \in tool_functions
    /\ tasks[1].state # "pending"

\* what prepare_tool_arguments gives for the i-th call of the turn
SanitizedArgs(i) ==
    prepare_tool_arguments(FirstToolCalls[i], call.prompt, call.image_bytes,
                           call.location_address, call.local_time, WebSearchHandle,
                           VisionHandle, PyDict(<< >>), TokenUsageHandle, CapabilitiesHandle)

\* the handler of call 1 was invoked once with the sanitized arguments and,
\* after the fan-in, the tool message holds the plain text of its result
HandledOnceAndNormalized ==
    /\ tasks[1].sanitizer_calls = 1
    /\ tasks[1].handler_calls = 1
    /\ SanitizedArgs(1).raised = ""
    /\ tasks[1].function_args = SanitizedArgs(1).args
    /\ FirstToolCalls[1].name = SEARCH_TOOL_NAME =>
           /\ tasks[1].search_calls = <<tool_search_request(SanitizedArgs(1).args)>>
           /\ tasks[1].vision_calls = << >>
    /\ pc \in {"awaiting_second", "done"} =>
           LET content == AppendedAfterFanOut[1].content
               function_name == FirstToolCalls[1].name
           IN  /\ Len(AppendedAfterFanOut) = 1
               /\ AppendedAfterFanOut[1].role = ROLE_TOOL
               /\ content.type = "str"
               /\ function_name = SEARCH_TOOL_NAME =>
                      /\ content = Str(SearchResultFor(tasks[1].search_calls[1]).val)
                      /\ CountRole([n \in 1..Len(capabilities_used) |->
                                       [role |-> capabilities_used[n]]], CAP_WEB_SEARCH) = 1
               /\ function_name = DUMMY_SEARCH_TOOL_NAME => content = Str(<< >>)
               /\ function_name = PHOTO_TOOL_NAME =>
                      \/ content = NO_PHOTO_ERROR /\ tasks[1].vision_calls = << >>
                      \/ content \in VisionTexts /\ tasks[1].search_calls = << >>
                      \/ /\ Len(tasks[1].search_calls) = 1
                         /\ content = Str(SearchResultFor(tasks[1].search_calls[1]).val)

\* C17: for a single call of a known tool the dispatcher invokes the tool's
\* handler exactly once, with the sanitized arguments, and the tool message
\* holds the plain text of the handler's result (a search result's summary,
\* or the text itself); a search records the web-search capability once and
\* its message holds the search backend's summary.
C17_KnownToolHandledOnce ==
    SingleKnownCallDispatched => HandledOnceAndNormalized

\* C17 for the payloads on which the sanitizer returns: the same statement
\* under the condition that prepare_tool_arguments did not raise.
C17_HandledOnceWhenSanitizerReturns ==
    (SingleKnownCallDispatched /\ SanitizedArgs(1).raised = "") => HandledOnceAndNormalized

\* the texts found inside the <key>...</key> tags of a context block
TagValues(block, key) ==
    {block[n + 3] : n \in {m \in 1..(Len(block) - 4) :
                              /\ block[m] = "<"
                              /\ block[m + 1] = key
                              /\ block[m + 2] = ">"
                              /\ block[m + 4] = "</"}}

\* what the caller's value of a fixed key must be emitted as
CallerValueOrDisclaimer(value, disclaimer) ==
    IF value # None /\ value # Str(<< >>) THEN value.val[1] ELSE disclaimer

\* the block holds the caller's current_time and location, or the disclaimers
FixedKeysFromCaller ==
    /\ TagValues(ctx_out.val, "current_time") =
           {CallerValueOrDisclaimer(ctx_call.local_time,
               "If asked, tell user you don't know current date or time because clock is broken")}
    /\ TagValues(ctx_out.val, "location") =
           {CallerValueOrDisclaimer(ctx_call.location,
               "You do not know user's location and if asked, tell them so")}

\* C18: whatever the learned-context mapping holds, also under the keys
\* current_time and location, the block emits inside the current_time and
\* location tags the caller's value (the disclaimer when it is absent or
\* empty) and never a learned value.
C18_FixedKeysReserved ==
    ctx_pc = "returned" => FixedKeysFromCaller

\* C18 for the mappings that do not use the fixed keys
C18_FixedKeysWhenNotLearned ==
    (ctx_pc = "returned"
     /\ \A item \in {DictItems(ctx_call.learned_context)[n] :
                         n \in 1..Len(DictItems(ctx_call.learned_context))} :
            item[1] \notin {"current_time", "location"}) =>
        FixedKeysFromCaller

\* the tag the i-th requested call records when its handler runs to its end:
\* none for a hallucinated name and for the photo tool without an image
ExpectedCapability(i) ==
    LET name == FirstToolCalls[i].name
        items == FirstToolCalls[i].arguments.items
        flag(k) == k \in DOMAIN items /\ items[k] = Bool(TRUE)
    IN  IF name = SEARCH_TOOL_NAME THEN <<CAP_WEB_SEARCH>>
        ELSE IF name = DUMMY_SEARCH_TOOL_NAME THEN <<CAP_ASSISTANT_KNOWLEDGE>>
        ELSE IF name = PHOTO_TOOL_NAME /\ call.image_bytes = Bytes(<<"jpeg">>)
        THEN IF flag(PHOTO_TOOL_WEB_SEARCH_PARAM_NAME) /\ ~flag(PHOTO_TOOL_TRANSLATION_PARAM_NAME)
             THEN <<CAP_REVERSE_IMAGE_SEARCH>>
             ELSE <<CAP_VISION>>
        ELSE << >>

\* how many times tag occurs in the list
TagCount(capabilities, tag) ==
    Cardinality({n \in 1..Len(capabilities) : capabilities[n] = tag})

\* C19: once the fan-in is over, and under every interleaving of the
\* handlers, the capability list holds each tag exactly as many times as
\* there are requested calls that record it: no write is lost, none is
\* duplicated, and hallucinated names and photo calls without an image
\* contribute nothing.
C19_CapabilityWritesKept ==
    pc = "awaiting_second" =>
        /\ \A tag \in {CAP_WEB_SEARCH, CAP_ASSISTANT_KNOWLEDGE, CAP_VISION,
                        CAP_REVERSE_IMAGE_SEARCH} :
               TagCount(capabilities_used, tag) =
                   Cardinality({i \in 1..Len(FirstToolCalls) : ExpectedCapability(i) = <<tag>>})
        /\ Len(capabilities_used) =
               Cardinality({i \in 1..Len(FirstToolCalls) : ExpectedCapability(i) # << >>})

\* a search and a photo call with an image ran interleaved, the photo
\* handler writing its tag before the search handler wrote its own and
\* finishing after it
C19_Witness ==
    /\ pc = "awaiting_second"
    /\ Len(tasks) = 2
    /\ FirstToolCalls[1].name = SEARCH_TOOL_NAME
    /\ FirstToolCalls[2].name = PHOTO_TOOL_NAME
    /\ completion_order = <<1, 2>>
    /\ capabilities_used = <<CAP_REVERSE_IMAGE_SEARCH, CAP_WEB_SEARCH>>

\* the sum, field by field, of the usage records of the completions received
RECURSIVE SumUsage(_)
SumUsage(cs) ==
    IF cs = << >> THEN [input |-> 0, output |-> 0, total |-> 0]
    ELSE LET rest == SumUsage(Tail(cs))
         IN  [input |-> rest.input + cs[1].usage.prompt_tokens,
              output |-> rest.output + cs[1].usage.completion_tokens,
              total |-> rest.total + cs[1].usage.total_tokens]

\* how many times the vision backend has answered in this turn
VisionAnswers ==
    Cardinality({i \in 1..Len(tasks) :
                    /\ tasks[i].vision_calls # << >>
                    /\ \/ tasks[i].state \in {"await_photo_search", "done"}
                       \/ /\ tasks[i].state = "failed"
                          /\ tasks[i].search_calls # << >>})

\* C20: the accumulator only grows during a turn. At DONE the usage under
\* the turn's model is at least the sum of the usage of every completion
\* received (the first always, the second when tools were requested); the
\* accumulator given to every tool invocation is the response's own, so what
\* the vision backend added during the fan-out is still there.
C20_TokenUsageAdditive ==
    pc = "done" =>
        LET model == model_or_default(call.model)
            sum == SumUsage(completions)
        IN  /\ Len(completions) = IF tool_calls_requested(FirstToolCalls) THEN 2 ELSE 1
            /\ model \in DOMAIN token_usage_by_model
            /\ token_usage_by_model[model].input >= sum.input
            /\ token_usage_by_model[model].output >= sum.output
            /\ token_usage_by_model[model].total >= sum.total
            /\ sum.total > 0
            /\ \A i \in 1..Len(tasks) :
                   "token_usage_by_model" \in DOMAIN tasks[i].function_args =>
                       tasks[i].function_args["token_usage_by_model"] = TokenUsageHandle
            /\ VisionAnswers > 0 =>
                   /\ VISION_MODEL \in DOMAIN token_usage_by_model
                   /\ token_usage_by_model[VISION_MODEL].total
                          = VisionAnswers * VisionUsage.total_tokens

\* a turn with a caller-named model is DONE after two completions and a
\* photo call during which the vision backend accounted for its own usage
C20_Witness ==
    /\ pc = "done"
    /\ call.model = Str(<<"gpt-4o">>)
    /\ Len(completions) = 2
    /\ VisionAnswers > 0
    /\ token_usage_by_model["gpt-4o"].total
           = completions[1].usage.total_tokens + completions[2].usage.total_tokens

\* the photo tool was called with an image, reverse image search true and
\* translate false or left to its default
PhotoReverseSearchWithImage ==
    /\ photo_pc # "idle"
    /\ photo_call.function_args["image_bytes"] = Bytes(<<"jpeg">>)
    /\ PHOTO_TOOL_WEB_SEARCH_PARAM_NAME \in DOMAIN photo_call.function_args
    /\ photo_call.function_args[PHOTO_TOOL_WEB_SEARCH_PARAM_NAME] = Bool(TRUE)
    /\ PHOTO_TOOL_TRANSLATION_PARAM_NAME \in DOMAIN photo_call.function_args =>
           photo_call.function_args[PHOTO_TOOL_TRANSLATION_PARAM_NAME] = Bool(FALSE)

\* the vision text without the quotation marks around it
Unquoted(text) ==
    IF text = Str(<<"\"", "red car", "\"">>) THEN Str(<<"red car">>) ELSE text

\* C21: with an image, reverse image search true and translate false the
\* photo tool makes one vision request (with the search-query prompt), then,
\* only once the vision backend has answered, one web search whose query is
\* the vision text without its surrounding quotation marks and whose image
\* is the original one; it returns the search result; the only capability
\* written for the call is reverse-image-search (the dispatcher adds none
\* for the photo tool).
C21_ReverseImageSearchSequence ==
    (PhotoReverseSearchWithImage /\ photo_pc # "called") =>
        /\ Len(photo_vision_calls) = 1
        /\ photo_vision_calls[1].system_message.val[1]
               = VISION_GENERATE_REVERSE_IMAGE_SEARCH_QUERY_FROM_PHOTO_SYSTEM_MESSAGE
        /\ photo_vision_calls[1].image_bytes = Bytes(<<"jpeg">>)
        /\ photo_vision_calls[1].query = photo_call.function_args[QUERY_PARAM_NAME]
        /\ photo_capabilities = Append(photo_call.capabilities_used, CAP_REVERSE_IMAGE_SEARCH)
        /\ handle_tool_capability(PHOTO_TOOL_NAME) = << >>
        /\ photo_pc \in {"await_vision_then_search", "await_search", "returned", "raised"}
        /\ photo_vision_response = None => photo_search_calls = << >>
        /\ photo_pc = "await_vision_then_search" => photo_search_calls = << >>
        /\ photo_pc \in {"await_search", "returned"} =>
               /\ photo_vision_response \in VisionTexts
               /\ Len(photo_search_calls) = 1
               /\ photo_search_calls[1].query = Unquoted(photo_vision_response)
               /\ photo_search_calls[1].use_photo = Bool(TRUE)
               /\ photo_search_calls[1].image_bytes = Bytes(<<"jpeg">>)
        /\ photo_pc = "returned" =>
               /\ photo_out.type = "WebSearchResult"
               /\ photo_out = SearchResultFor(photo_search_calls[1])

\* the photo tool has returned the result of a search for red car, after
\* the vision backend answered "red car" in quotation marks
C21_Witness ==
    /\ PhotoReverseSearchWithImage
    /\ photo_pc = "returned"
    /\ photo_vision_response = Str(<<"\"", "red car", "\"">>)
    /\ photo_search_calls[1].query = Str(<<"red car">>)
    /\ photo_out.type = "WebSearchResult"

\* the grounding block of the turn: the content of the extra system message
\* that ends the history of the first completion request
TurnGroundingBlock == requests[1].messages[Len(requests[1].messages)].content

\* the grounding block of a vision request: its system message without the
\* prompt and the blank line before the block
VisionGroundingBlock(request) ==
    Str(SubSeq(request.system_message.val, 3, Len(request.system_message.val)))

\* C22: every request a photo call of the turn makes to the vision backend
\* carries, after its prompt, the same grounding block as the extra system
\* message of the turn, whether local time and location are present or not.
C22_SameGroundingBlock ==
    \A i \in 1..Len(tasks) :
        \A n \in 1..Len(tasks[i].vision_calls) :
            /\ tasks[i].vision_calls[n].system_message.val[2] = "\n\n"
            /\ VisionGroundingBlock(tasks[i].vision_calls[n]) = TurnGroundingBlock

\* C22 for the turns whose caller gave a location
C22_SameGroundingBlockWithLocation ==
    (pc # "idle" /\ Truthy(call.location_address)) => C22_SameGroundingBlock

\* the result of the sanitizer for the same tool and the same ambient values
\* when the payload is the JSON object o
SanitizedWith(o) ==
    prepare_tool_arguments(ToolCall(san_call.tool_call.id, san_call.tool_call.name,
                                    [json |-> "dict", items |-> o]),
                           san_call.user_message, san_call.image_bytes, san_call.location,
                           san_call.local_time, WebSearchHandle, VisionHandle,
                           PyDict(<< >>), TokenUsageHandle, CapabilitiesHandle)

\* C23: in the mapping the sanitizer returns, location, image_bytes, vision,
\* web_search, local_time, learned_context, token_usage_by_model and
\* capabilities_used hold what the caller gave (for location: the caller's
\* value or "unknown"), also when the payload has keys of those names; the
\* empty payload and the payloads that name all of them give the same
\* values; and every such key but location is present exactly for the photo
\* tool.
C23_InjectedNotModelControlled ==
    (san_pc = "finished" /\ san_out.raised = "") =>
        /\ \A k \in DOMAIN InjectedArgs :
               /\ k \in DOMAIN san_out.args
               /\ san_out.args[k] = InjectedArgs[k]
        /\ \A k \in InjectedNames \ {"location"} :
               k \in DOMAIN san_out.args <=> san_call.tool_call.name = PHOTO_TOOL_NAME
        /\ \A o \in OverridingObjects \cup {EmptyDict} :
               /\ SanitizedWith(o).raised = ""
               /\ \A k \in InjectedNames :
                      /\ k \in DOMAIN SanitizedWith(o).args <=> k \in DOMAIN san_out.args
                      /\ k \in DOMAIN san_out.args =>
                             SanitizedWith(o).args[k] = san_out.args[k]

\* the photo tool was called with an image and a payload that names every
\* caller-set argument, and the image in the result is the caller's
C23_Witness ==
    /\ san_pc = "finished"
    /\ san_call.tool_call.name = PHOTO_TOOL_NAME
    /\ san_call.image_bytes = Bytes(<<"jpeg">>)
    /\ san_call.tool_call.arguments.json = "dict"
    /\ DOMAIN san_call.tool_call.arguments.items = InjectedNames
    /\ san_call.tool_call.arguments.items["image_bytes"] = Str(<<"true">>)
    /\ san_out.args["image_bytes"] = Bytes(<<"jpeg">>)

\* C24: whatever history the caller gave, the history of the first
\* completion request ends with the new user message followed by the context
\* system message, so the new user message survives pruning; and the list
\* the caller passed holds the same messages in the same order as before.
C24_NewUserMessageKept ==
    pc # "idle" =>
        LET messages == requests[1].messages
            n == Len(messages)
        IN  /\ n >= 3
            /\ messages[n] =
                   Message(ROLE_SYSTEM,
                           _create_context_system_message(call.local_time, call.location_address,
                                                          PyDict(<< >>)))
            /\ messages[n - 1] = Message(ROLE_USER, call.prompt)
            /\ \A k \in 1..(n - 2) : messages[k] # Message(ROLE_USER, call.prompt)
            /\ caller_list = call.message_history

\* a turn whose caller gave a dialogue over both budgets: messages of it
\* were pruned away, the new user message was not
C24_Witness ==
    /\ pc = "awaiting_first"
    /\ Len(call.message_history) = 10
    /\ Len(requests[1].messages) < Len(call.message_history) + 3
    /\ requests[1].messages[Len(requests[1].messages) - 1] = Message(ROLE_USER, call.prompt)
    /\ caller_list = call.message_history

\* the list the turn hands to _prune_history (lines 431-442)
TurnPruneInput ==
    LET copied == copy_history(call.history_absent, call.message_history).list
        system_message == Message(ROLE_SYSTEM, Str(<<SYSTEM_MESSAGE>>))
    IN  Append(IF Len(copied) = 0 THEN <<system_message>>
               ELSE IF copied[1].role # ROLE_SYSTEM THEN <<system_message>> \o copied
               ELSE copied,
               Message(ROLE_USER, call.prompt))

RECURSIVE PruneIterations(_)
\* how many times the body of the pruning loop runs from the state st
PruneIterations(st) ==
    IF st.i < Len(st.message_history) THEN 1 + PruneIterations(PruneIter(st)) ELSE 0

\* the turn never goes beyond two completion requests and one fan-out
AtMostTwoCompletions ==
    pc # "idle" =>
        /\ Len(requests) <= 2
        /\ Len(completions) <= Len(requests)
        /\ requests[1].tools
        /\ Len(requests) = 2 => ~requests[2].tools
        /\ Len(tasks) = Len(FirstToolCalls)
        /\ \A i \in 1..Len(tasks) : tasks[i].sanitizer_calls <= 1 /\ tasks[i].handler_calls <= 1
        /\ Len(completions) = 2 => pc = "done"
        /\ PruneIterations([message_history |-> Reverse(TurnPruneInput),
                            i |-> 0,
                            assistant_messages_remaining |-> assistant_messages_remaining,
                            user_messages_remaining |-> user_messages_remaining])
               = Len(TurnPruneInput)

\* C25: when every completion, vision and search call eventually returns or
\* fails, a turn that has started eventually is DONE or aborted; it makes at
\* most two completion requests and one round of tool calls: the second
\* request carries no tool catalog, the tool calls of its response start no
\* handler, and the pruning loop ends after one iteration per message.
C25_TurnTerminates ==
    /\ []AtMostTwoCompletions
    /\ (pc # "idle") ~> (pc \in {"done", "aborted"})

\* a turn is DONE although its second response asked for a tool call, after
\* two requests and one round of two tool calls
C25_Witness ==
    /\ pc = "done"
    /\ Len(requests) = 2
    /\ Len(completions[2].tool_calls) = 1
    /\ Len(tasks) = 2
    /\ \A i \in 1..Len(tasks) : tasks[i].state = "done"

=============================================================================
